---- MODULE Spec2Model ----
(***************************************************************************)
(* SwiftLogistics middleware: the asynchronous order-processing pipeline.  *)
(*                                                                         *)
(*   intake (api-gateway/app/routers/orders.py)  order row + outbox row    *)
(*   outbox publisher (worker.py outbox mode)    outbox -> order.created   *)
(*   broker                                      main / retry / dlq queue  *)
(*   pipeline worker (worker.py consume mode)    CMS -> ROS -> WMS         *)
(*   terminator (mark_ready_for_driver)          READY_FOR_DRIVER + driver *)
(*   status notifier (set_status push)           facade rewrites status    *)
(*                                                                         *)
(* Every database statement, broker call and HTTP push of a process is one *)
(* step; a call that touches no shared state (an adapter call) is taken in *)
(* the same step as the statement that follows it.                         *)
(***************************************************************************)
EXTENDS Integers, Sequences, FiniteSets, TLC

\* ------------------------------------------------------------------ bounds
\* MAX_RETRIES is read from the environment (default 5); the model runs the
\* configuration MAX_RETRIES = 1.
MAX_RETRIES == 1
\* How many times processes may be killed / lose their connection in a run.
MaxCrashes == 1
\* How many calls (adapter, database, broker) may fail or be lost in a run.
MaxFaults == 2
\* How many times the operator changes the set of driver users in a run.
MaxUserChanges == 1
\* How many orders intake accepts in a run of the outbox configuration.
MaxOrders == 2
\* How many messages other producers put on order.created in a run.
MaxForeign == 1

\* ------------------------------------------------------------- the universe
\* gen_order_id: "ORD-<epoch ms>", here numbered in the order of creation
OrderId(i) == "ORD-" \o ToString(i)
Orders == {OrderId(i) : i \in 1 .. MaxOrders}
Workers == {"w1", "w2"}
Publishers == {"p1", "p2"}
Procs == Workers \cup Publishers
\* ids of the users that may carry role='driver'
\* (users.id is text; the integers stand for the ids in ORDER BY id order)
DriverIds == {1, 2}
Null == "null"
\* assigned_driver_id IS NULL / last_event_id IS NULL / no event_id in a message
NoDriver == 0
NoEvent == 0
\* the outbox ids the sequence can hand out: one row per order
OutboxIds == 1 .. MaxOrders

QUEUE_MAIN == "order.created"
QUEUE_RETRY == "order.created.retry"
QUEUE_DLQ == "order.created.dlq"

\* a skip gate that also takes an order whose stage has failed for done
done_or_stage_error ==
    {"READY_FOR_DRIVER", "DELIVERED", "FAILED", "DLQ", "CMS_ERROR", "ROS_ERROR", "WMS_ERROR"}

\* the statuses process_order treats as done (skip gate)
DoneStatuses == {"READY_FOR_DRIVER", "DELIVERED", "FAILED", "DLQ"}

VARIABLES
    orders,      \* table orders: order id -> row (status "NONE": no row)
    outbox,      \* table outbox, committed rows: set of [id, order]
    nextOutboxId,\* the outbox id sequence
    rowLock,     \* outbox row id -> publisher holding its row lock, or Null
    users,       \* ids of the users with role='driver'
    queues,      \* queue name -> sequence of messages
    unacked,     \* worker -> the delivery it holds unacknowledged, or NoMsg
    wpc,         \* worker -> position in on_msg
    wloc,        \* worker -> locals of on_msg (err_msg, picked driver, ...)
    ppc,         \* publisher -> position in run_outbox_publisher
    ploc,        \* publisher -> locals (batch, rows deleted in the open tx)
    push,        \* process -> status push on its way to the facade, or Null
    order_events,\* table order_events: order id -> sequence of event types
    ipc,         \* order id -> position of the intake request that creates it
    hist,        \* history: what has happened to each order (for the claims)
    budget,      \* crashes and adapter failures left in this run
    saga         \* the saga orchestrator: its execution and the calls it made

vars == <<orders, outbox, nextOutboxId, rowLock, users, queues, unacked,
          wpc, wloc, ppc, ploc, push, order_events, ipc, hist, budget, saga>>

\* ------------------------------------------------------------ pure helpers
Min(a, b) == IF a < b THEN a ELSE b

RECURSIVE Pow2(_)
Pow2(n) == IF n = 0 THEN 1 ELSE 2 * Pow2(n - 1)

SeqMin(S) == CHOOSE x \in S : \A y \in S : x <= y

RECURSIVE SortedIds(_)
\* ORDER BY id of a set of outbox ids
SortedIds(S) == IF S = {} THEN <<>> ELSE <<SeqMin(S)>> \o SortedIds(S \ {SeqMin(S)})

\* ------------------------------------------------------------ error texts
\* str(e) of the exceptions the pipeline meets.  The handler only asks which
\* of its keywords occur in the lower-cased text, so a text is given with the
\* keywords it contains.
Keywords == {"soap", "cms", "ros", "optimize", "route", "wms", "socket", "tcp"}
\* requests.HTTPError / ConnectionError of call_cms_soap:
\*   "500 Server Error: ... for url: http://cms-soap:9000/soap"
ERR_CMS == "500 Server Error for url: http://cms-soap:9000/soap"
\* requests.HTTPError of call_ros_rest: "... url: http://ros-rest:9100/optimize-route"
ERR_ROS == "500 Server Error for url: http://ros-rest:9100/optimize-route"
\* socket.timeout of call_wms_tcp (create_connection / recv, timeout=5)
ERR_WMS_TIMEOUT == "timed out"
\* psycopg2.OperationalError of mark_processed:
\*   "... Is the server running on that host and accepting TCP/IP connections?"
ERR_DB == "could not connect to server: accepting TCP/IP connections?"
\* pika ChannelWrongStateError of basic_ack on a closed channel
ERR_CHANNEL == "Channel is closed."
\* json.JSONDecodeError of json.loads(body) on a body that is no JSON
ERR_JSON == "Expecting value: line 1 column 1 (char 0)"
\* KeyError of data["order_id"]
ERR_KEY == "'order_id'"
\* requests.ConnectionError of call_ros_rest when the ROS refuses connections:
\*   "HTTPConnectionPool(host='ros-rest', port=9100): Max retries exceeded with
\*    url: /optimize-route (Caused by NewConnectionError(..))"
ERR_ROS_CONN == "HTTPConnectionPool(host='ros-rest'): Max retries exceeded with url: /optimize-route"
ErrTexts == {ERR_CMS, ERR_ROS, ERR_ROS_CONN, ERR_WMS_TIMEOUT, ERR_DB, ERR_CHANNEL,
             ERR_JSON, ERR_KEY}

\* kw in err_msg.lower()
Contains(text, kw) ==
    CASE text = ERR_CMS -> kw \in {"cms", "soap"}
      [] text \in {ERR_ROS, ERR_ROS_CONN} -> kw \in {"ros", "optimize", "route"}
      [] text = ERR_DB -> kw \in {"tcp"}
      [] OTHER -> FALSE

\* on_msg, except branch: the status the error text is classified to
ErrorStatus(err_msg) ==
    IF Contains(err_msg, "soap") \/ Contains(err_msg, "cms") THEN "CMS_ERROR"
    ELSE IF Contains(err_msg, "ros") \/ Contains(err_msg, "optimize")
            \/ Contains(err_msg, "route") THEN "ROS_ERROR"
    ELSE IF Contains(err_msg, "wms") \/ Contains(err_msg, "socket")
            \/ Contains(err_msg, "tcp") THEN "WMS_ERROR"
    ELSE "FAILED"

\* ------------------------------------------------------------ WMS replies
\* The line read from the WMS socket, stripped, as a sequence of characters.
ReplyOk == <<"O", "K", "|", "W", "M", "S", "_", "O", "K">>
ReplyAck == <<"A", "C", "K", "|", "1">>
ReplyNack == <<"N", "A", "C", "K">>
ReplyEmpty == <<>>
WmsReplies == {ReplyOk, ReplyAck, ReplyNack, ReplyEmpty}
\* no line read yet in this attempt
NoReply == <<"(none)">>
\* what the WMS side does with a connection: answers a line, or never answers
WmsAnswers == [kind : {"line"}, line : WmsReplies] \cup {[kind |-> "timeout", line |-> ReplyEmpty]}

StartsWith(s, prefix) ==
    /\ Len(s) >= Len(prefix)
    /\ SubSeq(s, 1, Len(prefix)) = prefix

\* the adapter contract: a reply starting with OK| or ACK|
WmsSuccessReply(reply) ==
    StartsWith(reply, <<"O", "K", "|">>) \/ StartsWith(reply, <<"A", "C", "K", "|">>)

\* call_wms_tcp: returns the stripped line it read, whatever it is; only a
\* socket error or timeout raises.  "raise" stands for the exception.
call_wms_tcp(answer) ==
    IF answer.kind = "timeout" THEN [raised |-> TRUE, data |-> NoReply]
    ELSE [raised |-> FALSE, data |-> answer.line]

\* ------------------------------------------------------------ order store
NoRow == [status |-> "NONE", retry_count |-> 0, last_error |-> Null,
          last_event_id |-> NoEvent, assigned_driver_id |-> NoDriver,
          route |-> Null]

\* INSERT INTO orders (..., status, retry_count, ...) VALUES (..., 'NEW', 0, ...)
NewRow == [NoRow EXCEPT !.status = "NEW"]

get_status(tbl, o) == tbl[o].status

\* set_status with the inc_retry flag ignored: every status write counts a retry
set_status_counting(tbl, o, status, last_error, inc_retry) ==
    IF tbl[o].status = "NONE" THEN tbl
    ELSE [tbl EXCEPT ![o] =
            [@ EXCEPT !.status = status,
                      !.retry_count = @ + 1,
                      !.last_error = IF last_error = Null THEN @ ELSE last_error]]

\* the UPDATE of set_status on the row with id = o (no row: nothing updated)
set_status(tbl, o, status, last_error, inc_retry) ==
    IF tbl[o].status = "NONE" THEN tbl
    ELSE [tbl EXCEPT ![o] =
            [@ EXCEPT !.status = status,
                      !.retry_count = IF inc_retry THEN @ + 1 ELSE @,
                      !.last_error = IF last_error = Null THEN @ ELSE last_error]]

\* the facade's POST /internal/orders/{id}/status: UPDATE orders SET status
internal_status(tbl, o, status) ==
    IF tbl[o].status = "NONE" THEN tbl
    ELSE [tbl EXCEPT ![o].status = status]

already_processed(tbl, o, event_id) ==
    tbl[o].status # "NONE" /\ tbl[o].last_event_id = event_id

mark_processed(tbl, o, event_id) ==
    IF tbl[o].status = "NONE" THEN tbl
    ELSE [tbl EXCEPT ![o].last_event_id = event_id]

\* a pick that falls back to the first id when no user has the role driver
pick_driver_or_first(drivers) ==
    CHOOSE d \in drivers \cup {1} : \A e \in drivers \cup {1} : d = e \/ d < e

\* SELECT id FROM users WHERE role='driver' ORDER BY id ASC LIMIT 1
pick_driver_id(drivers) ==
    IF drivers = {} THEN NoDriver
    ELSE CHOOSE d \in drivers : \A e \in drivers : d = e \/ d < e

\* the UPDATE without its "AND assigned_driver_id IS NULL"
assign_driver_overwrite(tbl, o, driver_id) ==
    IF tbl[o].status # "NONE"
    THEN [tbl EXCEPT ![o].assigned_driver_id = driver_id]
    ELSE tbl

\* UPDATE orders SET assigned_driver_id=.. WHERE id=.. AND assigned_driver_id IS NULL
assign_driver_update(tbl, o, driver_id) ==
    IF tbl[o].status # "NONE" /\ tbl[o].assigned_driver_id = NoDriver
    THEN [tbl EXCEPT ![o].assigned_driver_id = driver_id]
    ELSE tbl

\* the event log of a database that has no table order_events
NoEventsTable == [o \in Orders |-> <<"(no table)">>]
NoEvents == [o \in Orders |-> <<>>]
_table_exists(log) == log # NoEventsTable

\* add_event: INSERT INTO order_events(order_id, event_type, details); it does
\* nothing without the table, and never raises
add_event(log, o, event_type) ==
    IF _table_exists(log) THEN [log EXCEPT ![o] = Append(@, event_type)] ELSE log

\* UPDATE orders SET payload = jsonb_set(payload, '{route}', ..)
set_route(tbl, o, route) ==
    IF tbl[o].status = "NONE" THEN tbl
    ELSE [tbl EXCEPT ![o].route = route]

\* --------------------------------------------------------------- messages
\* A broker message: the body (its kind, its order_id and event_id), the
\* property correlation_id, the headers x-retries, x-ttl-ms and x-dlq-reason
\* (the text it is a prefix of and its length), the names of its other headers,
\* and the per-message expiration.
\* A value of the header x-retries as pika hands it to on_msg: no such header,
\* an integer, a float (whole + tenths / 10), a string (its characters), or null.
HeaderValue(kind, num, tenths, text) ==
    [kind |-> kind, num |-> num, tenths |-> tenths, text |-> text]
Missing == HeaderValue("missing", 0, 0, <<>>)
IntHeader(n) == HeaderValue("int", n, 0, <<>>)
FloatHeader(whole, tenths) == HeaderValue("float", whole, tenths, <<>>)
StrHeader(chars) == HeaderValue("str", 0, 0, chars)
NoneHeader == HeaderValue("none", 0, 0, <<>>)

DigitChars == <<"0", "1", "2", "3", "4", "5", "6", "7", "8", "9">>
IsDigit(c) == \E d \in DOMAIN DigitChars : DigitChars[d] = c
DigitValue(c) == (CHOOSE d \in DOMAIN DigitChars : DigitChars[d] = c) - 1

\* the number a string of decimal digits denotes
RECURSIVE DigitsValue(_)
DigitsValue(chars) ==
    IF chars = <<>> THEN 0
    ELSE DigitsValue(SubSeq(chars, 1, Len(chars) - 1)) * 10
         + DigitValue(chars[Len(chars)])

\* str(n) of a natural number: its decimal digits
RECURSIVE str(_)
str(n) ==
    IF n < 10 THEN <<DigitChars[n + 1]>>
    ELSE str(n \div 10) \o <<DigitChars[(n % 10) + 1]>>

\* Python's int(v): an int is itself, a float is truncated, a string of digits
\* is parsed; any other string raises ValueError and None raises TypeError
int(v) ==
    CASE v.kind = "int" -> [raised |-> FALSE, value |-> v.num]
      [] v.kind = "float" -> [raised |-> FALSE, value |-> v.num]
      [] v.kind = "str" /\ v.text # <<>> /\ \A i \in DOMAIN v.text : IsDigit(v.text[i])
            -> [raised |-> FALSE, value |-> DigitsValue(v.text)]
      [] OTHER -> [raised |-> TRUE, value |-> 0]

Message(o, e, retries, ttl, reason) ==
    [body |-> "json", order |-> o, event |-> e, correlation_id |-> e,
     retries |-> retries, ttl |-> ttl, reason |-> reason, reason_len |-> 0,
     other |-> {}, expiration |-> <<>>]
NoMsg == Message(Null, NoEvent, Missing, 0, Null)

\* bodies safe_extract_order_id cannot read: no JSON at all, or a JSON object
\* without the key order_id
MalformedBodies == {"not_json", "no_order_id"}
\* a message of another producer with such a body: no headers, no correlation_id
MalformedMessage(kind) == [NoMsg EXCEPT !.body = kind]

BASE_RETRY_TTL_MS == 2000
MAX_RETRY_TTL_MS == 60000

\* run_outbox_publisher: body {order_id, event_id = outbox_id, ..},
\* correlation_id = str(outbox_id), no headers
OutboxMessage(row) == Message(row.order, row.id, Missing, 0, Null)

\* get_retry_count that takes the header as it is when it is an integer and
\* 0 otherwise
get_retry_count_if_int(msg) == IF msg.retries.kind = "int" THEN msg.retries.num ELSE 0

\* v = headers.get("x-retries", 0); try: return int(v) except Exception: return 0
get_retry_count(msg) ==
    LET v == IF msg.retries.kind = "missing" THEN IntHeader(0) ELSE msg.retries
    IN IF int(v).raised THEN 0 ELSE int(v).value

\* min(MAX_RETRY_TTL_MS, BASE_RETRY_TTL_MS * (2 ** (next_retry - 1)))
RetryTtl(next_retry) == Min(MAX_RETRY_TTL_MS, BASE_RETRY_TTL_MS * Pow2(next_retry - 1))

\* publish_retry with fresh properties: the correlation_id is not passed on
publish_retry_fresh(msg, retry_count, ttl_ms) ==
    [msg EXCEPT !.retries = IntHeader(retry_count), !.ttl = ttl_ms,
                !.expiration = str(ttl_ms), !.correlation_id = NoEvent]

\* publish_retry: same body, same correlation_id, the headers of the delivery
\* with x-retries = retry_count and x-ttl-ms = ttl_ms, and publish_to_queue's
\* expiration = str(int(expiration_ms))
RetryMessage(msg, retry_count, ttl_ms) ==
    [msg EXCEPT !.retries = IntHeader(retry_count), !.ttl = ttl_ms,
                !.expiration = str(ttl_ms)]

\* len(str(e)) of the error texts: a requests / psycopg2 / pika message with
\* its url or host is about this long; a ConnectionError of requests, which
\* quotes the connection pool, the url and the cause, is longer than 200
TextLen(text) ==
    CASE text = ERR_CMS -> 74
      [] text = ERR_ROS -> 88
      [] text = ERR_ROS_CONN -> 263
      [] text = ERR_WMS_TIMEOUT -> 9
      [] text = ERR_DB -> 150
      [] text = ERR_CHANNEL -> 18
      [] text = ERR_JSON -> 41
      [] text = ERR_KEY -> 10
      [] OTHER -> 0

DLQ_REASON_MAX == 200

\* publish_dlq with the reason put into the header as it is
publish_dlq_untruncated(msg, reason) ==
    [msg EXCEPT !.reason = reason, !.reason_len = TextLen(reason)]

\* publish_dlq: same body, same properties, the headers of the delivery plus
\* x-dlq-reason = (reason or "")[:200]
DlqMessage(msg, reason) ==
    [msg EXCEPT !.reason = reason, !.reason_len = Min(TextLen(reason), DLQ_REASON_MAX)]

\* basic_publish on a channel without publisher confirms: the call returns once
\* the frame is written; the broker has the message ("ok"), or the connection
\* was already known dead and the call raises ("raise"), or the frame is lost
\* on the way without the caller learning of it ("lost").
PublishOutcomes == {"ok", "raise", "lost"}

Enqueue(qs, q, msg) == [qs EXCEPT ![q] = Append(@, msg)]

\* A set_status call past its UPDATE: the push to the facade is on its way, and
\* event is the add_event the caller makes right after set_status returns.
StatusPush(o, status, event) == [order |-> o, status |-> status, event |-> event]
NoPush == StatusPush(Null, Null, Null)

\* ------------------------------------------------------ saga orchestrator
\* saga-pattern/order_saga_orchestrator.py: OrderSagaOrchestrator.execute_saga
\* runs the steps of a SagaExecution one after the other on its three clients.
\* An order, as far as the orchestrator and the clients look at it: which of
\* the fields are there (and truthy).
SagaOrders ==
    [order_id : BOOLEAN, customer_id : BOOLEAN, shipping_address : BOOLEAN,
     items : BOOLEAN]
NoOrder == [order_id |-> FALSE, customer_id |-> FALSE, shipping_address |-> FALSE,
            items |-> FALSE]

\* SagaStep.name of the steps start_saga adds, in its order
StepNames == <<"CMS Approval", "Route Planning", "Inventory Allocation">>
StepIndexes == 0 .. (Len(StepNames) - 1)

\* The clients the orchestrator was built with: the services whose execute
\* raises whatever the order is, and those whose compensate raises.
SagaClients == [down : SUBSET StepIndexes, comp_down : SUBSET StepIndexes]

\* SagaExecution: status "NONE" stands for no execution object
NoExecution == [status |-> "NONE", steps |-> <<>>, current_step_index |-> 0]

\* SagaExecution(order_id) after the three add_step calls of start_saga
NewExecution ==
    [status |-> "PENDING", steps |-> [i \in DOMAIN StepNames |-> "PENDING"],
     current_step_index |-> 0]

\* calls: the client calls made so far, <<"action", i>> or <<"compensation", i>>
\* with the results of the actions; todo: the steps _compensate still has to
\* visit
NoSaga == [pc |-> "idle", order |-> NoOrder,
           clients |-> [down |-> {}, comp_down |-> {}],
           execution |-> NoExecution, calls |-> <<>>, todo |-> <<>>]

\* ------------------------------------------------------------------- Init
\* confirmed: the broker has stored a message of the order's event;
\* delivered: a worker has received one; dispatches: how many it received;
\* cms_ok, ros_ok, wms_ok: the adapter has returned a success result;
\* adapter_failures: adapter calls that raised; ready_runs: terminator runs;
\* failed_acks: failed deliveries the except branch has acknowledged;
\* republished: envelopes the except branch has put on the retry or DLQ queue;
\* sent: a publisher's basic_publish for the outbox row has returned;
\* published: how many messages of the outbox row the broker has stored;
\* publish_failed: the publishers whose basic_publish for the row raised, until
\* a basic_publish for the row returns;
\* wms_answered: the WMS has sent a line for the order; wms_timeouts: how many
\* WMS calls for the order ended in a timeout; last_route: the response of the
\* most recent ROS call for the order that returned; was_done: the stored status
\* of the order has been READY_FOR_DRIVER, DLQ, DELIVERED or FAILED.
NoHist == [confirmed |-> FALSE, delivered |-> FALSE, dispatches |-> 0,
           cms_ok |-> FALSE, ros_ok |-> FALSE, wms_ok |-> FALSE,
           adapter_failures |-> 0, ready_runs |-> 0,
           failed_acks |-> 0, republished |-> 0,
           sent |-> FALSE, published |-> 0, publish_failed |-> {},
           wms_answered |-> FALSE, wms_timeouts |-> 0,
           notified |-> 0, last_route |-> Null, was_done |-> FALSE]

\* skipped: the gate that has skipped the delivery in hand (the event it audits);
\* route: the local variable route of process_order
NoWLoc == [msg |-> NoMsg, err_msg |-> Null, driver_id |-> NoDriver,
           reply |-> NoReply, chan_closed |-> FALSE, skipped |-> Null,
           stage |-> Null, route |-> Null]
NoPLoc == [batch |-> <<>>, deleted |-> {}]

Init ==
    /\ orders = [o \in Orders |-> NoRow]
    /\ outbox = {}
    /\ nextOutboxId = 1
    /\ rowLock = [i \in OutboxIds |-> Null]
    /\ users \in SUBSET DriverIds
    /\ queues = [q \in {QUEUE_MAIN, QUEUE_RETRY, QUEUE_DLQ} |-> <<>>]
    /\ unacked = [w \in Workers |-> NoMsg]
    /\ wpc = [w \in Workers |-> "idle"]
    /\ wloc = [w \in Workers |-> NoWLoc]
    /\ ppc = [p \in Publishers |-> "idle"]
    /\ ploc = [p \in Publishers |-> NoPLoc]
    /\ push = [p \in Procs |-> NoPush]
    /\ order_events = NoEventsTable
    /\ ipc = [o \in Orders |-> "idle"]
    /\ hist = [o \in Orders |-> NoHist]
    /\ budget = [crashes |-> MaxCrashes, faults |-> MaxFaults, user_changes |-> 0,
                 orders |-> 1, foreign |-> 0, max_retries |-> MAX_RETRIES,
                 routes |-> 1]
    /\ saga = NoSaga

\* ----------------------------------------------------------------- intake
\* The gateway's routes for POST, in the order main.py registers them:
\* app.include_router(orders_router) adds the router's create_order under
\* /orders and /orders/, and the decorator @app.post("/orders") further down
\* adds main.py's own create_order.
ROUTER_CREATE_ORDER == "routers.orders.create_order"
MAIN_CREATE_ORDER == "main.create_order"
Routes ==
    <<[method |-> "POST", path |-> "/orders", endpoint |-> ROUTER_CREATE_ORDER],
      [method |-> "POST", path |-> "/orders/", endpoint |-> ROUTER_CREATE_ORDER],
      [method |-> "POST", path |-> "/orders", endpoint |-> MAIN_CREATE_ORDER]>>

Matches(routes, method, path) ==
    {i \in DOMAIN routes : routes[i].method = method /\ routes[i].path = path}

match_last_route(routes, method, path) ==
    routes[CHOOSE i \in Matches(routes, method, path) :
              \A j \in Matches(routes, method, path) : j <= i].endpoint

\* the application serves a request with the first route that matches it
match_route(routes, method, path) ==
    routes[CHOOSE i \in Matches(routes, method, path) :
              \A j \in Matches(routes, method, path) : i <= j].endpoint

\* routers/orders.py create_order:
\* INSERT INTO orders .. ; INSERT INTO outbox .. ; conn.commit()
intake_rows(tbl, obx, o, id) ==
    [orders |-> [tbl EXCEPT ![o] = NewRow],
     outbox |-> obx \cup {[id |-> id, order |-> o]}]

\* main.py create_order: INSERT INTO orders (.. 'PENDING' ..) ; conn.commit(),
\* no outbox row; publish_order_created would follow the commit
legacy_rows(tbl, obx, o) ==
    [orders |-> [tbl EXCEPT ![o] = [NoRow EXCEPT !.status = "PENDING"]],
     outbox |-> obx]

\* POST /orders.  In the router's handler the order row and its outbox row are
\* inserted in one transaction; until its commit nothing of it is visible,
\* and a request that dies before the commit leaves nothing behind.  Without
\* the table order_events the first audit raises and both are skipped.
create_order(o) ==
    /\ ipc[o] = "idle"
    /\ budget.orders > 0
    /\ nextOutboxId \in OutboxIds /\ o = OrderId(nextOutboxId)
    /\ orders[o].status = "NONE"
    /\ IF match_route(Routes, "POST", "/orders") = ROUTER_CREATE_ORDER
       THEN LET rows == intake_rows(orders, outbox, o, nextOutboxId) IN
             /\ orders' = rows.orders
             /\ outbox' = rows.outbox
             /\ nextOutboxId' = nextOutboxId + 1
             /\ ipc' = [ipc EXCEPT ![o] = IF _table_exists(order_events)
                                           THEN "audit_created" ELSE "done"]
       ELSE LET rows == legacy_rows(orders, outbox, o) IN
             /\ orders' = rows.orders
             /\ outbox' = rows.outbox
             /\ nextOutboxId' = nextOutboxId
             /\ ipc' = [ipc EXCEPT ![o] = "publish_order_created"]
    /\ budget' = [budget EXCEPT !.orders = @ - 1]
    /\ UNCHANGED <<rowLock, users, queues, unacked, wpc, wloc, ppc, ploc, push,
                   order_events, hist>>
    /\ UNCHANGED saga

\* create_order after its commit: add_event(order_id, "CREATED", ..)
AuditCreated(o) ==
    /\ ipc[o] = "audit_created"
    /\ order_events' = add_event(order_events, o, "CREATED")
    /\ ipc' = [ipc EXCEPT ![o] = "audit_enqueued"]
    /\ UNCHANGED <<orders, outbox, nextOutboxId, rowLock, users, queues, unacked,
                   wpc, wloc, ppc, ploc, push, hist, budget>>
    /\ UNCHANGED saga

\* create_order: add_event(order_id, "OUTBOX_ENQUEUED", ..), then the response
AuditEnqueued(o) ==
    /\ ipc[o] = "audit_enqueued"
    /\ order_events' = add_event(order_events, o, "OUTBOX_ENQUEUED")
    /\ ipc' = [ipc EXCEPT ![o] = "done"]
    /\ UNCHANGED <<orders, outbox, nextOutboxId, rowLock, users, queues, unacked,
                   wpc, wloc, ppc, ploc, push, hist, budget>>
    /\ UNCHANGED saga

\* the gateway process is killed after the commit, or an add_event raises (the
\* try block around the two audits swallows it): the remaining audits are skipped
IntakeCrash(o) ==
    /\ ipc[o] \in {"audit_created", "audit_enqueued"}
    /\ budget.crashes > 0
    /\ budget' = [budget EXCEPT !.crashes = @ - 1]
    /\ ipc' = [ipc EXCEPT ![o] = "done"]
    /\ UNCHANGED <<orders, outbox, nextOutboxId, rowLock, users, queues, unacked,
                   wpc, wloc, ppc, ploc, push, order_events, hist>>
    /\ UNCHANGED saga

\* ------------------------------------------------------- status notifier
\* The tail of set_status: POST {status} to the facade, timeout 3 s, errors
\* swallowed.  The facade writes the status into the order row; a failed push
\* writes nothing.  set_status returns and the caller appends its audit event.
Push(p) ==
    /\ push[p] # NoPush
    /\ \/ orders' = internal_status(orders, push[p].order, push[p].status)
       \/ orders' = orders
    /\ order_events' = IF push[p].event = Null THEN order_events
                       ELSE add_event(order_events, push[p].order, push[p].event)
    /\ push' = [push EXCEPT ![p] = NoPush]
    /\ UNCHANGED <<outbox, nextOutboxId, rowLock, users, queues, unacked, wpc,
                   wloc, ppc, ploc, ipc, hist, budget>>
    /\ UNCHANGED saga

\* ------------------------------------------------------- outbox publisher
BatchLimit == 50

\* SELECT .. FROM outbox ORDER BY id LIMIT 50 FOR UPDATE SKIP LOCKED
outbox_fetch_batch(limit) ==
    LET free == {r \in outbox : rowLock[r.id] = Null}
        ids == SortedIds({r.id : r \in free})
        n == Min(limit, Len(ids))
    IN [i \in 1 .. n |-> CHOOSE r \in free : r.id = ids[i]]

\* conn_db.commit(): the deletes of the open transaction take effect and its
\* row locks are released
CommitOutbox(p) ==
    /\ outbox' = {r \in outbox : r.id \notin ploc[p].deleted}
    /\ rowLock' = [i \in OutboxIds |-> IF rowLock[i] = p THEN Null ELSE rowLock[i]]

\* loop top: claim a batch (an empty batch commits, sleeps and tries again)
Claim(p) ==
    /\ ppc[p] = "idle" /\ push[p] = NoPush
    /\ LET rows == outbox_fetch_batch(BatchLimit) IN
        /\ rows # <<>>
        /\ rowLock' = [i \in OutboxIds |->
                         IF \E k \in DOMAIN rows : rows[k].id = i THEN p ELSE rowLock[i]]
        /\ ploc' = [ploc EXCEPT ![p] = [batch |-> rows, deleted |-> {}]]
    /\ ppc' = [ppc EXCEPT ![p] = "publish"]
    /\ UNCHANGED <<order_events, ipc, orders, outbox, nextOutboxId, users, queues, unacked, wpc, wloc,
                   push, hist, budget>>
    /\ UNCHANGED saga

\* the for loop moves to the next row, or leaves the loop for the final commit
NextRow(p) == IF Len(ploc[p].batch) > 1 THEN "publish" ELSE "commit"

\* ch.basic_publish(routing_key=QUEUE_MAIN, ..) for the row at the head of the
\* batch.  A raise runs the except branch: conn_db.commit(), reconnect, and the
\* for loop goes on with the next row.
Publish(p) ==
    /\ ppc[p] = "publish" /\ push[p] = NoPush
    /\ LET row == Head(ploc[p].batch) IN
       \E outcome \in PublishOutcomes :
        \/ /\ outcome = "ok"
           /\ queues' = Enqueue(queues, QUEUE_MAIN, OutboxMessage(row))
           /\ hist' = [hist EXCEPT ![row.order].confirmed = TRUE,
                                   ![row.order].sent = TRUE,
                                   ![row.order].published = @ + 1,
                                   ![row.order].publish_failed = {}]
           /\ ppc' = [ppc EXCEPT ![p] = "delete"]
           /\ UNCHANGED <<outbox, rowLock, ploc, budget>>
        \/ /\ outcome = "lost"
           /\ budget.faults > 0
           /\ budget' = [budget EXCEPT !.faults = @ - 1]
           /\ hist' = [hist EXCEPT ![row.order].sent = TRUE,
                                   ![row.order].publish_failed = {}]
           /\ ppc' = [ppc EXCEPT ![p] = "delete"]
           /\ UNCHANGED <<outbox, rowLock, ploc, queues>>
        \/ /\ outcome = "raise"
           /\ budget.faults > 0
           /\ budget' = [budget EXCEPT !.faults = @ - 1]
           /\ CommitOutbox(p)
           /\ ploc' = [ploc EXCEPT ![p] = [batch |-> Tail(@.batch), deleted |-> {}]]
           /\ ppc' = [ppc EXCEPT ![p] = NextRow(p)]
           /\ hist' = [hist EXCEPT ![row.order].publish_failed = @ \cup {p}]
           /\ UNCHANGED queues
    /\ UNCHANGED <<order_events, ipc, orders, nextOutboxId, users, unacked, wpc, wloc, push>>
    /\ UNCHANGED saga

\* outbox_delete(conn_db, outbox_id) inside the open transaction: waits for the
\* row lock when another transaction holds it; deletes nothing when the row is
\* gone
outbox_delete(p) ==
    /\ ppc[p] = "delete" /\ push[p] = NoPush
    /\ LET row == Head(ploc[p].batch) IN
        /\ rowLock[row.id] \in {Null, p}
        /\ IF row \in outbox
           THEN /\ rowLock' = [rowLock EXCEPT ![row.id] = p]
                /\ ploc' = [ploc EXCEPT ![p].deleted = @ \cup {row.id}]
           ELSE UNCHANGED <<rowLock, ploc>>
    /\ ppc' = [ppc EXCEPT ![p] = "queued"]
    /\ UNCHANGED <<order_events, ipc, orders, outbox, nextOutboxId, users, queues, unacked, wpc, wloc,
                   push, hist, budget>>
    /\ UNCHANGED saga

\* set_status(order_id, "QUEUED") after the publish and the delete
Queued(p) ==
    /\ ppc[p] = "queued" /\ push[p] = NoPush
    /\ LET row == Head(ploc[p].batch) IN
        /\ orders' = set_status(orders, row.order, "QUEUED", Null, FALSE)
        /\ push' = [push EXCEPT ![p] = StatusPush(row.order, "QUEUED", "QUEUED")]
    /\ ppc' = [ppc EXCEPT ![p] = NextRow(p)]
    /\ ploc' = [ploc EXCEPT ![p].batch = Tail(@)]
    /\ UNCHANGED <<order_events, ipc, outbox, nextOutboxId, rowLock, users, queues, unacked, wpc, wloc,
                   hist, budget>>
    /\ UNCHANGED saga

\* the conn_db.commit() after the for loop
Commit(p) ==
    /\ ppc[p] = "commit" /\ push[p] = NoPush
    /\ CommitOutbox(p)
    /\ ppc' = [ppc EXCEPT ![p] = "idle"]
    /\ ploc' = [ploc EXCEPT ![p] = NoPLoc]
    /\ UNCHANGED <<order_events, ipc, orders, nextOutboxId, users, queues, unacked, wpc, wloc, push,
                   hist, budget>>
    /\ UNCHANGED saga

\* the publisher process is killed: its open transaction is rolled back
PublisherCrash(p) ==
    /\ ppc[p] # "idle"
    /\ budget.crashes > 0
    /\ budget' = [budget EXCEPT !.crashes = @ - 1]
    /\ rowLock' = [i \in OutboxIds |-> IF rowLock[i] = p THEN Null ELSE rowLock[i]]
    /\ ppc' = [ppc EXCEPT ![p] = "idle"]
    /\ ploc' = [ploc EXCEPT ![p] = NoPLoc]
    /\ push' = [push EXCEPT ![p] = NoPush]
    /\ UNCHANGED <<order_events, ipc, orders, outbox, nextOutboxId, users, queues, unacked, wpc, wloc,
                   hist>>
    /\ UNCHANGED saga

\* ----------------------------------------------------------------- broker
\* a delivery the consumer never acknowledged returns to the head of its queue
Requeue(qs, msg) == [qs EXCEPT ![QUEUE_MAIN] = <<msg>> \o @]

\* The per-message expiration of the message at the head of the retry queue
\* runs out: the queue's dead-letter routing puts it on the main queue.
RetryExpire ==
    /\ queues[QUEUE_RETRY] # <<>>
    /\ queues' = [queues EXCEPT ![QUEUE_RETRY] = Tail(@),
                                ![QUEUE_MAIN] = Append(@, Head(queues[QUEUE_RETRY]))]
    /\ UNCHANGED <<order_events, ipc, orders, outbox, nextOutboxId, rowLock, users, unacked, wpc, wloc,
                   ppc, ploc, push, hist, budget>>
    /\ UNCHANGED saga

\* another producer puts a message on order.created whose body the worker
\* cannot read
PublishForeign ==
    /\ budget.foreign > 0
    /\ budget' = [budget EXCEPT !.foreign = @ - 1]
    /\ \E kind \in MalformedBodies :
          queues' = Enqueue(queues, QUEUE_MAIN, MalformedMessage(kind))
    /\ UNCHANGED <<orders, outbox, nextOutboxId, rowLock, users, unacked, wpc, wloc,
                   ppc, ploc, push, order_events, ipc, hist>>
    /\ UNCHANGED saga

\* ------------------------------------------------------------ the operator
\* rows of users with role='driver' come and go (pick_driver_id only reads them)
ChangeDrivers ==
    /\ budget.user_changes > 0
    /\ budget' = [budget EXCEPT !.user_changes = @ - 1]
    /\ \E d \in DriverIds :
          users' = IF d \in users THEN users \ {d} ELSE users \cup {d}
    /\ UNCHANGED <<order_events, ipc, orders, outbox, nextOutboxId, rowLock, queues, unacked, wpc, wloc,
                   ppc, ploc, push, hist>>
    /\ UNCHANGED saga

\* ---------------------------------------------------------- pipeline worker
pubVars == <<outbox, nextOutboxId, rowLock, ppc, ploc>>

At(w, pc) == wpc[w] = pc /\ push[w] = NoPush
Goto(w, pc) == wpc' = [wpc EXCEPT ![w] = pc]
OrderOf(w) == wloc[w].msg.order

\* safe_extract_event_id: the body's event_id when the body is JSON and has
\* one, else the correlation_id, else None
safe_extract_event_id(msg) ==
    IF msg.body # "not_json" /\ msg.event # NoEvent THEN msg.event
    ELSE msg.correlation_id

EventOf(w) == safe_extract_event_id(wloc[w].msg)

\* a set_status(order_id, status) of process_order, with the push it starts
StatusStep(w, from, status, event, to) ==
    /\ At(w, from)
    /\ orders' = set_status(orders, OrderOf(w), status, Null, FALSE)
    /\ push' = [push EXCEPT ![w] = StatusPush(OrderOf(w), status, event)]
    /\ Goto(w, to)

\* the adapter call of stage S raises (wloc keeps the stage for the record)
AdapterRaise(w, S, text) ==
    /\ budget.faults > 0
    /\ budget' = [budget EXCEPT !.faults = @ - 1]
    /\ wloc' = [wloc EXCEPT ![w].err_msg = text, ![w].stage = S]
    /\ hist' = [hist EXCEPT ![OrderOf(w)].adapter_failures = @ + 1]
    /\ Goto(w, "err")

\* another exception inside the try block of on_msg: control moves to the handler
Raise(w, text) ==
    /\ budget.faults > 0
    /\ budget' = [budget EXCEPT !.faults = @ - 1]
    /\ wloc' = [wloc EXCEPT ![w].err_msg = text]
    /\ Goto(w, "err")

\* json.loads(body)["order_id"]: the exception it raises on this body, or Null
safe_extract_order_id(msg) ==
    CASE msg.body = "not_json" -> ERR_JSON
      [] msg.body = "no_order_id" -> ERR_KEY
      [] OTHER -> Null

\* The broker hands the head of order.created to an idle consumer (prefetch 1)
\* and on_msg reads order_id and event_id from it; a body it cannot read
\* raises into the except branch with order_id = None.
Receive(w) ==
    /\ At(w, "idle")
    /\ queues[QUEUE_MAIN] # <<>>
    /\ LET msg == Head(queues[QUEUE_MAIN])
           err == safe_extract_order_id(msg) IN
        /\ queues' = [queues EXCEPT ![QUEUE_MAIN] = Tail(@)]
        /\ unacked' = [unacked EXCEPT ![w] = msg]
        /\ IF err = Null
           THEN /\ wloc' = [wloc EXCEPT ![w] = [NoWLoc EXCEPT !.msg = msg]]
                /\ hist' = [hist EXCEPT ![msg.order].delivered = TRUE,
                                        ![msg.order].dispatches = Min(@ + 1, MAX_RETRIES + 2)]
                /\ Goto(w, "gate")
           ELSE /\ wloc' = [wloc EXCEPT ![w] = [NoWLoc EXCEPT !.msg = msg, !.err_msg = err]]
                /\ Goto(w, "err")
                /\ UNCHANGED hist
    /\ UNCHANGED <<order_events, ipc, orders, users, push, budget, pubVars>>
    /\ UNCHANGED saga

\* on_msg: the idempotency gate; a duplicate is audited and goes straight to
\* its channel.basic_ack, which is inside the try block like the one that
\* follows mark_processed
Gate(w) ==
    /\ At(w, "gate")
    /\ IF /\ OrderOf(w) # Null /\ EventOf(w) # NoEvent
          /\ already_processed(orders, OrderOf(w), EventOf(w))
       THEN /\ order_events' = add_event(order_events, OrderOf(w), "DUPLICATE_SKIP")
            /\ wloc' = [wloc EXCEPT ![w].skipped = "DUPLICATE_SKIP"]
            /\ Goto(w, "ack")
       ELSE /\ Goto(w, "get_status")
            /\ UNCHANGED <<wloc, order_events>>
    /\ UNCHANGED <<ipc, orders, users, queues, unacked, push, hist, budget, pubVars>>
    /\ UNCHANGED saga

\* process_order: the skip gate
SkipGate(w) ==
    /\ At(w, "get_status")
    /\ IF get_status(orders, OrderOf(w)) \in DoneStatuses
       THEN /\ order_events' = add_event(order_events, OrderOf(w), "SKIP_ALREADY_DONE")
            /\ wloc' = [wloc EXCEPT ![w].skipped = "SKIP_ALREADY_DONE"]
            /\ Goto(w, "mark")
       ELSE /\ Goto(w, "set_processing")
            /\ UNCHANGED <<wloc, order_events>>
    /\ UNCHANGED <<ipc, orders, users, queues, unacked, push, hist, budget, pubVars>>
    /\ UNCHANGED saga

SetProcessing(w) ==
    /\ StatusStep(w, "set_processing", "PROCESSING", "PROCESSING", "set_cms_calling")
    /\ UNCHANGED <<order_events, ipc, users, queues, unacked, wloc, hist, budget, pubVars>>
    /\ UNCHANGED saga

SetCmsCalling(w) ==
    /\ StatusStep(w, "set_cms_calling", "CMS_CALLING", "CMS_CALLING", "cms")
    /\ UNCHANGED <<order_events, ipc, users, queues, unacked, wloc, hist, budget, pubVars>>
    /\ UNCHANGED saga

\* call_cms_soap, then set_status(order_id, "CMS_OK")
Cms(w) ==
    /\ At(w, "cms")
    /\ \/ /\ StatusStep(w, "cms", "CMS_OK", "CMS_OK", "set_ros_calling")
          /\ hist' = [hist EXCEPT ![OrderOf(w)].cms_ok = TRUE]
          /\ UNCHANGED <<wloc, budget>>
       \/ /\ AdapterRaise(w, "CMS", ERR_CMS)
          /\ UNCHANGED <<orders, push>>
    /\ UNCHANGED <<order_events, ipc, users, queues, unacked, pubVars>>
    /\ UNCHANGED saga

SetRosCalling(w) ==
    /\ StatusStep(w, "set_ros_calling", "ROS_CALLING", "ROS_CALLING", "ros")
    /\ UNCHANGED <<order_events, ipc, users, queues, unacked, wloc, hist, budget, pubVars>>
    /\ UNCHANGED saga

\* the JSON objects the ROS answers with in this run (budget.routes of them)
RouteName(i) == "ROUTE-" \o ToString(i)
RosResponses == {RouteName(i) : i \in 1 .. budget.routes}

\* route = call_ros_rest(order_id): r.json() of a 2xx answer, or the HTTPError
Ros(w) ==
    /\ At(w, "ros")
    /\ \/ /\ \E route \in RosResponses :
                /\ wloc' = [wloc EXCEPT ![w].route = route]
                /\ hist' = [hist EXCEPT ![OrderOf(w)].ros_ok = TRUE,
                                        ![OrderOf(w)].last_route = route]
          /\ Goto(w, "save_route")
          /\ UNCHANGED budget
       \/ \E text \in {ERR_ROS, ERR_ROS_CONN} : AdapterRaise(w, "ROS", text)
    /\ UNCHANGED <<orders, order_events, ipc, users, queues, unacked, push, pubVars>>
    /\ UNCHANGED saga

\* the UPDATE that stores route under payload.route, its commit, and
\* add_event(order_id, "ROUTE_SAVED", ..)
SaveRoute(w) ==
    /\ At(w, "save_route")
    /\ orders' = set_route(orders, OrderOf(w), wloc[w].route)
    /\ order_events' = add_event(order_events, OrderOf(w), "ROUTE_SAVED")
    /\ Goto(w, "set_ros_ok")
    /\ UNCHANGED <<ipc, users, queues, unacked, wloc, push, hist, budget, pubVars>>
    /\ UNCHANGED saga

SetRosOk(w) ==
    /\ StatusStep(w, "set_ros_ok", "ROS_OK", "ROS_OK", "set_wms_calling")
    /\ UNCHANGED <<order_events, ipc, users, queues, unacked, wloc, hist, budget, pubVars>>
    /\ UNCHANGED saga

SetWmsCalling(w) ==
    /\ StatusStep(w, "set_wms_calling", "WMS_CALLING", "WMS_CALLING", "wms")
    /\ UNCHANGED <<order_events, ipc, users, queues, unacked, wloc, hist, budget, pubVars>>
    /\ UNCHANGED saga

\* call_wms_tcp, then set_status(order_id, "WMS_OK")
Wms(w) ==
    /\ At(w, "wms")
    /\ \E answer \in WmsAnswers :
        LET r == call_wms_tcp(answer) IN
        IF r.raised
        THEN /\ budget.faults > 0
             /\ budget' = [budget EXCEPT !.faults = @ - 1]
             /\ wloc' = [wloc EXCEPT ![w].err_msg = ERR_WMS_TIMEOUT, ![w].stage = "WMS"]
             /\ hist' = [hist EXCEPT ![OrderOf(w)].adapter_failures = @ + 1,
                                     ![OrderOf(w)].wms_timeouts = @ + 1]
             /\ Goto(w, "err")
             /\ UNCHANGED <<orders, push>>
        ELSE /\ StatusStep(w, "wms", "WMS_OK", "WMS_OK", "set_ready")
             /\ wloc' = [wloc EXCEPT ![w].reply = r.data]
             /\ hist' = [hist EXCEPT ![OrderOf(w)].wms_ok = @ \/ WmsSuccessReply(answer.line),
                                     ![OrderOf(w)].wms_answered = TRUE]
             /\ UNCHANGED budget
    /\ UNCHANGED <<order_events, ipc, users, queues, unacked, pubVars>>
    /\ UNCHANGED saga

\* mark_ready_for_driver: set_status(order_id, "READY_FOR_DRIVER")
SetReady(w) ==
    /\ StatusStep(w, "set_ready", "READY_FOR_DRIVER", Null, "assign_read")
    /\ hist' = [hist EXCEPT ![OrderOf(w)].ready_runs = Min(@ + 1, 2),
                            ![OrderOf(w)].was_done = @ \/ orders[OrderOf(w)].status # "NONE"]
    /\ wloc' = [wloc EXCEPT ![w].reply = NoReply]
    /\ UNCHANGED <<order_events, ipc, users, queues, unacked, budget, pubVars>>
    /\ UNCHANGED saga

\* assign_driver_if_missing: SELECT assigned_driver_id FROM orders
AssignRead(w) ==
    /\ At(w, "assign_read")
    /\ LET row == orders[OrderOf(w)] IN
        IF row.status = "NONE" THEN
            /\ Goto(w, "audit_ready") /\ UNCHANGED wloc
        ELSE IF row.assigned_driver_id # NoDriver THEN
            /\ wloc' = [wloc EXCEPT ![w].driver_id = row.assigned_driver_id]
            /\ Goto(w, "audit_ready")
        ELSE
            /\ Goto(w, "assign_pick") /\ UNCHANGED wloc
    /\ UNCHANGED <<order_events, ipc, orders, users, queues, unacked, push, hist, budget, pubVars>>
    /\ UNCHANGED saga

\* assign_driver_if_missing: driver_id = pick_driver_id()
AssignPick(w) ==
    /\ At(w, "assign_pick")
    /\ LET driver_id == pick_driver_id(users) IN
        /\ wloc' = [wloc EXCEPT ![w].driver_id = driver_id]
        /\ IF driver_id = NoDriver THEN Goto(w, "audit_ready")
                                   ELSE Goto(w, "assign_update")
    /\ UNCHANGED <<order_events, ipc, orders, users, queues, unacked, push, hist, budget, pubVars>>
    /\ UNCHANGED saga

\* assign_driver_if_missing: the UPDATE and its commit; returns driver_id
AssignUpdate(w) ==
    /\ At(w, "assign_update")
    /\ orders' = assign_driver_update(orders, OrderOf(w), wloc[w].driver_id)
    /\ Goto(w, "audit_ready")
    /\ UNCHANGED <<order_events, ipc, users, queues, unacked, wloc, push, hist, budget, pubVars>>
    /\ UNCHANGED saga

\* mark_ready_for_driver after assign_driver_if_missing returned driver_id:
\* the audit entries, and with a driver notify_driver: a POST to the facade
\* whose failure is swallowed (hist counts the attempts)
AuditReady(w) ==
    /\ At(w, "audit_ready")
    /\ order_events' =
          add_event(add_event(order_events, OrderOf(w), "READY_FOR_DRIVER"), OrderOf(w),
                    IF wloc[w].driver_id # NoDriver THEN "DRIVER_ASSIGNED"
                    ELSE "DRIVER_ASSIGN_FAILED")
    /\ hist' = IF wloc[w].driver_id # NoDriver
               THEN [hist EXCEPT ![OrderOf(w)].notified = Min(@ + 1, 2)]
               ELSE hist
    /\ Goto(w, "mark")
    /\ UNCHANGED <<orders, users, queues, unacked, wloc, push, ipc, budget, pubVars>>
    /\ UNCHANGED saga

\* on_msg: if order_id and event_id: mark_processed(order_id, event_id)
Mark(w) ==
    /\ At(w, "mark")
    /\ \/ /\ orders' = IF OrderOf(w) # Null /\ EventOf(w) # NoEvent
                       THEN mark_processed(orders, OrderOf(w), EventOf(w))
                       ELSE orders
          /\ Goto(w, "ack")
          /\ UNCHANGED <<wloc, budget>>
       \/ /\ OrderOf(w) # Null /\ EventOf(w) # NoEvent
          /\ Raise(w, ERR_DB)
          /\ UNCHANGED orders
    /\ UNCHANGED <<order_events, ipc, users, queues, unacked, push, hist, pubVars>>
    /\ UNCHANGED saga

\* on_msg: channel.basic_ack at the end of the try block.  On a channel that
\* has been closed it raises; the broker has then taken the delivery back.
Ack(w) ==
    /\ At(w, "ack")
    /\ \/ /\ unacked' = [unacked EXCEPT ![w] = NoMsg]
          /\ wloc' = [wloc EXCEPT ![w] = NoWLoc]
          /\ Goto(w, "idle")
          /\ UNCHANGED <<queues, budget>>
       \/ /\ budget.faults > 0
          /\ budget' = [budget EXCEPT !.faults = @ - 1]
          /\ queues' = Requeue(queues, unacked[w])
          /\ unacked' = [unacked EXCEPT ![w] = NoMsg]
          /\ wloc' = [wloc EXCEPT ![w].err_msg = ERR_CHANNEL, ![w].chan_closed = TRUE]
          /\ Goto(w, "err")
    /\ UNCHANGED <<order_events, ipc, orders, users, push, hist, pubVars>>
    /\ UNCHANGED saga

\* on_msg, except branch: classify the error text and write the error status
\* with inc_retry=True (nothing is written when order_id is unknown)
ErrStatus(w) ==
    /\ At(w, "err")
    /\ IF OrderOf(w) # Null
       THEN /\ orders' = set_status(orders, OrderOf(w), ErrorStatus(wloc[w].err_msg),
                                    wloc[w].err_msg, TRUE)
            /\ push' = [push EXCEPT ![w] =
                          StatusPush(OrderOf(w), ErrorStatus(wloc[w].err_msg),
                                     ErrorStatus(wloc[w].err_msg))]
            /\ hist' = [hist EXCEPT ![OrderOf(w)].was_done =
                            @ \/ (/\ orders[OrderOf(w)].status # "NONE"
                                  /\ ErrorStatus(wloc[w].err_msg) = "FAILED")]
       ELSE UNCHANGED <<orders, push, hist>>
    /\ Goto(w, "err_ack")
    /\ UNCHANGED <<order_events, ipc, users, queues, unacked, wloc, budget, pubVars>>
    /\ UNCHANGED saga

\* on_msg, except branch: channel.basic_ack of the failed delivery.  On a
\* closed channel it raises out of on_msg and the consumer loop reconnects.
ErrAck(w) ==
    /\ At(w, "err_ack")
    /\ IF wloc[w].chan_closed
       THEN /\ wloc' = [wloc EXCEPT ![w] = NoWLoc]
            /\ Goto(w, "idle")
            /\ UNCHANGED <<unacked, hist>>
       ELSE /\ unacked' = [unacked EXCEPT ![w] = NoMsg]
            /\ hist' = IF OrderOf(w) = Null THEN hist
                       ELSE [hist EXCEPT ![OrderOf(w)].failed_acks = @ + 1]
            /\ Goto(w, "err_pub")
            /\ UNCHANGED wloc
    /\ UNCHANGED <<order_events, ipc, orders, users, queues, push, budget, pubVars>>
    /\ UNCHANGED saga

\* the republish may be lost or raise like any publish without confirms
Republish(q, msg, outcome) ==
    /\ outcome # "ok" => budget.faults > 0
    /\ budget' = [budget EXCEPT !.faults = IF outcome # "ok" THEN @ - 1 ELSE @]
    /\ queues' = IF outcome = "ok" THEN Enqueue(queues, q, msg) ELSE queues
    /\ hist' = IF outcome = "ok" /\ msg.order # Null
               THEN [hist EXCEPT ![msg.order].republished = @ + 1]
               ELSE hist

\* on_msg, except branch: schedule the retry or move to the DLQ
ErrPublish(w) ==
    /\ At(w, "err_pub")
    /\ LET msg == wloc[w].msg
           retries == get_retry_count(msg)
           next_retry == retries + 1
       IN \E outcome \in PublishOutcomes :
            IF retries < budget.max_retries
            THEN /\ Republish(QUEUE_RETRY, RetryMessage(msg, next_retry, RetryTtl(next_retry)),
                              outcome)
                 /\ order_events' = IF outcome # "raise" /\ OrderOf(w) # Null
                                    THEN add_event(order_events, OrderOf(w), "RETRY_SCHEDULED")
                                    ELSE order_events
                 /\ wloc' = [wloc EXCEPT ![w] = NoWLoc]
                 /\ Goto(w, "idle")
            ELSE /\ Republish(QUEUE_DLQ, DlqMessage(msg, wloc[w].err_msg), outcome)
                 /\ UNCHANGED order_events
                 /\ IF outcome = "raise" \/ OrderOf(w) = Null
                    THEN /\ wloc' = [wloc EXCEPT ![w] = NoWLoc]
                         /\ Goto(w, "idle")
                    ELSE /\ Goto(w, "set_dlq")
                         /\ UNCHANGED wloc
    /\ UNCHANGED <<ipc, orders, users, unacked, push, pubVars>>
    /\ UNCHANGED saga

\* on_msg, except branch: set_status(order_id, "DLQ", last_error=err_msg)
SetDlq(w) ==
    /\ At(w, "set_dlq")
    /\ orders' = set_status(orders, OrderOf(w), "DLQ", wloc[w].err_msg, FALSE)
    /\ push' = [push EXCEPT ![w] = StatusPush(OrderOf(w), "DLQ", "DLQ")]
    /\ hist' = [hist EXCEPT ![OrderOf(w)].was_done = @ \/ orders[OrderOf(w)].status # "NONE"]
    /\ wloc' = [wloc EXCEPT ![w] = NoWLoc]
    /\ Goto(w, "idle")
    /\ UNCHANGED <<order_events, ipc, users, queues, unacked, budget, pubVars>>
    /\ UNCHANGED saga

\* the worker process is killed or loses its connection: the broker takes the
\* unacknowledged delivery back; run_consumer starts over
WorkerCrash(w) ==
    /\ wpc[w] # "idle"
    /\ budget.crashes > 0
    /\ budget' = [budget EXCEPT !.crashes = @ - 1]
    /\ queues' = IF unacked[w] # NoMsg THEN Requeue(queues, unacked[w]) ELSE queues
    /\ unacked' = [unacked EXCEPT ![w] = NoMsg]
    /\ wloc' = [wloc EXCEPT ![w] = NoWLoc]
    /\ push' = [push EXCEPT ![w] = NoPush]
    /\ Goto(w, "idle")
    /\ UNCHANGED <<order_events, ipc, orders, users, hist, pubVars>>
    /\ UNCHANGED saga

\* ------------------------------------------------------------------- Next
\* the steps of the outbox publishers ps, of the workers ws, and of the rest
PublisherStep(ps) ==
    \/ \E p \in ps : Claim(p)
    \/ \E p \in ps : Publish(p)
    \/ \E p \in ps : outbox_delete(p)
    \/ \E p \in ps : Queued(p)
    \/ \E p \in ps : Commit(p)

PipelineStep(ws) ==
    \/ \E w \in ws : Receive(w)
    \/ \E w \in ws : Gate(w)
    \/ \E w \in ws : SkipGate(w)
    \/ \E w \in ws : SetProcessing(w)
    \/ \E w \in ws : SetCmsCalling(w)
    \/ \E w \in ws : Cms(w)
    \/ \E w \in ws : SetRosCalling(w)
    \/ \E w \in ws : Ros(w)
    \/ \E w \in ws : SaveRoute(w)
    \/ \E w \in ws : SetRosOk(w)
    \/ \E w \in ws : SetWmsCalling(w)
    \/ \E w \in ws : Wms(w)
    \/ \E w \in ws : SetReady(w)
    \/ \E w \in ws : AssignRead(w)
    \/ \E w \in ws : AssignPick(w)
    \/ \E w \in ws : AssignUpdate(w)
    \/ \E w \in ws : AuditReady(w)
    \/ \E w \in ws : Mark(w)
    \/ \E w \in ws : Ack(w)

HandlerStep(ws) ==
    \/ \E w \in ws : ErrStatus(w)
    \/ \E w \in ws : ErrAck(w)
    \/ \E w \in ws : ErrPublish(w)
    \/ \E w \in ws : SetDlq(w)

\* the steps of intake after its commit
IntakeStep ==
    \/ \E o \in Orders : AuditCreated(o)
    \/ \E o \in Orders : AuditEnqueued(o)

\* one publisher and one worker, with every failure the budgets allow, on a
\* database without the table order_events
Next ==
    \/ \E o \in Orders : create_order(o)
    \/ \E p \in Procs : Push(p)
    \/ PublisherStep({"p1"})
    \/ \E p \in Publishers : PublisherCrash(p)
    \/ RetryExpire
    \/ PipelineStep({"w1"})
    \/ HandlerStep({"w1"})
    \/ \E w \in Workers : WorkerCrash(w)

Spec == Init /\ [][Next]_vars

\* Two workers on the same queue, with a publisher that may be killed (its
\* rolled-back rows are published again) and an operator who changes the
\* driver users; no call fails.
InitRace ==
    /\ orders = [o \in Orders |-> NoRow]
    /\ outbox = {}
    /\ nextOutboxId = 1
    /\ rowLock = [i \in OutboxIds |-> Null]
    /\ users \in SUBSET DriverIds
    /\ queues = [q \in {QUEUE_MAIN, QUEUE_RETRY, QUEUE_DLQ} |-> <<>>]
    /\ unacked = [w \in Workers |-> NoMsg]
    /\ wpc = [w \in Workers |-> "idle"]
    /\ wloc = [w \in Workers |-> NoWLoc]
    /\ ppc = [p \in Publishers |-> "idle"]
    /\ ploc = [p \in Publishers |-> NoPLoc]
    /\ push = [p \in Procs |-> NoPush]
    /\ order_events = NoEventsTable
    /\ ipc = [o \in Orders |-> "idle"]
    /\ hist = [o \in Orders |-> NoHist]
    /\ budget = [crashes |-> MaxCrashes, faults |-> 0, user_changes |-> MaxUserChanges,
                 orders |-> 1, foreign |-> 0, max_retries |-> MAX_RETRIES,
                 routes |-> 1]
    /\ saga = NoSaga

NextRace ==
    \/ \E o \in Orders : create_order(o)
    \/ \E p \in Procs : Push(p)
    \/ PublisherStep({"p1"})
    \/ \E p \in Publishers : PublisherCrash(p)
    \/ ChangeDrivers
    \/ PipelineStep(Workers)

SpecRace == InitRace /\ [][NextRace]_vars

\* One publisher and one worker on a database with the table order_events,
\* from the moment intake has answered the request for the first order: no
\* call fails, processes may be killed.
InitAudit ==
    /\ orders = [o \in Orders |-> IF o = OrderId(1) THEN NewRow ELSE NoRow]
    /\ outbox = {[id |-> 1, order |-> OrderId(1)]}
    /\ nextOutboxId = 2
    /\ rowLock = [i \in OutboxIds |-> Null]
    /\ users = {1}
    /\ queues = [q \in {QUEUE_MAIN, QUEUE_RETRY, QUEUE_DLQ} |-> <<>>]
    /\ unacked = [w \in Workers |-> NoMsg]
    /\ wpc = [w \in Workers |-> "idle"]
    /\ wloc = [w \in Workers |-> NoWLoc]
    /\ ppc = [p \in Publishers |-> "idle"]
    /\ ploc = [p \in Publishers |-> NoPLoc]
    /\ push = [p \in Procs |-> NoPush]
    /\ order_events = [NoEvents EXCEPT ![OrderId(1)] = <<"CREATED", "OUTBOX_ENQUEUED">>]
    /\ ipc = [o \in Orders |-> IF o = OrderId(1) THEN "done" ELSE "idle"]
    /\ hist = [o \in Orders |-> NoHist]
    /\ budget = [crashes |-> MaxCrashes, faults |-> 0, user_changes |-> 0,
                 orders |-> 0, foreign |-> 0, max_retries |-> MAX_RETRIES,
                 routes |-> 1]
    /\ saga = NoSaga

NextAudit ==
    \/ \E p \in Procs : Push(p)
    \/ PublisherStep({"p1"})
    \/ \E p \in Publishers : PublisherCrash(p)
    \/ PipelineStep({"w1"})
    \/ \E w \in Workers : WorkerCrash(w)

SpecAudit == InitAudit /\ [][NextAudit]_vars

\* The same without crashes, and with another producer that may put a message
\* with an unreadable body on the main queue.
InitMalformed ==
    /\ orders = [o \in Orders |-> NoRow]
    /\ outbox = {}
    /\ nextOutboxId = 1
    /\ rowLock = [i \in OutboxIds |-> Null]
    /\ users = {1}
    /\ queues = [q \in {QUEUE_MAIN, QUEUE_RETRY, QUEUE_DLQ} |-> <<>>]
    /\ unacked = [w \in Workers |-> NoMsg]
    /\ wpc = [w \in Workers |-> "idle"]
    /\ wloc = [w \in Workers |-> NoWLoc]
    /\ ppc = [p \in Publishers |-> "idle"]
    /\ ploc = [p \in Publishers |-> NoPLoc]
    /\ push = [p \in Procs |-> NoPush]
    /\ order_events = NoEvents
    /\ ipc = [o \in Orders |-> "idle"]
    /\ hist = [o \in Orders |-> NoHist]
    /\ budget = [crashes |-> 0, faults |-> 0, user_changes |-> 0,
                 orders |-> 1, foreign |-> MaxForeign, max_retries |-> MAX_RETRIES,
                 routes |-> 1]
    /\ saga = NoSaga

NextMalformed ==
    \/ \E o \in Orders : create_order(o)
    \/ IntakeStep
    \/ \E p \in Procs : Push(p)
    \/ PublisherStep({"p1"})
    \/ PublishForeign
    \/ RetryExpire
    \/ PipelineStep({"w1"})
    \/ ErrStatus("w1")
    \/ ErrAck("w1")
    \/ ErrPublish("w1")

SpecMalformed == InitMalformed /\ [][NextMalformed]_vars

\* Intake and two outbox publishers (two processes started with the argument
\* outbox) on a database with the table order_events: two orders, a broker
\* connection that may fail, and a gateway that may be killed after its commit.
\* No publisher is killed and no worker consumes.
InitOutbox ==
    /\ orders = [o \in Orders |-> NoRow]
    /\ outbox = {}
    /\ nextOutboxId = 1
    /\ rowLock = [i \in OutboxIds |-> Null]
    /\ users = {1}
    /\ queues = [q \in {QUEUE_MAIN, QUEUE_RETRY, QUEUE_DLQ} |-> <<>>]
    /\ unacked = [w \in Workers |-> NoMsg]
    /\ wpc = [w \in Workers |-> "idle"]
    /\ wloc = [w \in Workers |-> NoWLoc]
    /\ ppc = [p \in Publishers |-> "idle"]
    /\ ploc = [p \in Publishers |-> NoPLoc]
    /\ push = [p \in Procs |-> NoPush]
    /\ order_events = NoEvents
    /\ ipc = [o \in Orders |-> "idle"]
    /\ hist = [o \in Orders |-> NoHist]
    /\ budget = [crashes |-> MaxCrashes, faults |-> MaxFaults, user_changes |-> 0,
                 orders |-> MaxOrders, foreign |-> 0, max_retries |-> MAX_RETRIES,
                 routes |-> 1]
    /\ saga = NoSaga

NextOutbox ==
    \/ \E o \in Orders : create_order(o)
    \/ IntakeStep
    \/ \E o \in Orders : IntakeCrash(o)
    \/ \E p \in Procs : Push(p)
    \/ PublisherStep(Publishers)

SpecOutbox == InitOutbox /\ [][NextOutbox]_vars

\* Intake, one publisher and one worker on a database with the table
\* order_events, with or without a driver user: one order, at most one failing
\* call, no process is killed.
InitEvents ==
    /\ orders = [o \in Orders |-> NoRow]
    /\ outbox = {}
    /\ nextOutboxId = 1
    /\ rowLock = [i \in OutboxIds |-> Null]
    /\ users \in {{}, {1}}
    /\ queues = [q \in {QUEUE_MAIN, QUEUE_RETRY, QUEUE_DLQ} |-> <<>>]
    /\ unacked = [w \in Workers |-> NoMsg]
    /\ wpc = [w \in Workers |-> "idle"]
    /\ wloc = [w \in Workers |-> NoWLoc]
    /\ ppc = [p \in Publishers |-> "idle"]
    /\ ploc = [p \in Publishers |-> NoPLoc]
    /\ push = [p \in Procs |-> NoPush]
    /\ order_events = NoEvents
    /\ ipc = [o \in Orders |-> "idle"]
    /\ hist = [o \in Orders |-> NoHist]
    /\ budget = [crashes |-> 0, faults |-> 1, user_changes |-> 0,
                 orders |-> 1, foreign |-> 0, max_retries |-> MAX_RETRIES,
                 routes |-> 1]
    /\ saga = NoSaga

NextEvents ==
    \/ \E o \in Orders : create_order(o)
    \/ IntakeStep
    \/ \E p \in Procs : Push(p)
    \/ PublisherStep({"p1"})
    \/ RetryExpire
    \/ PipelineStep({"w1"})
    \/ ErrStatus("w1")
    \/ ErrAck("w1")
    \/ ErrPublish("w1")

SpecEvents == InitEvents /\ [][NextEvents]_vars

\* The retry budget and the x-retries header: one worker, one order that has
\* been published, and on order.created one message of that order whose header
\* x-retries is any of HeaderValues (a retry envelope, or the message of
\* another producer), which carries its event id in the body, in the
\* correlation_id, in both or nowhere; MAX_RETRIES is configured to any value
\* up to MaxEnvRetries, and at most MaxHops calls fail.
MaxHeader == 6
MaxEnvRetries == 7
MaxHops == 2

HeaderValues ==
    {Missing, NoneHeader, FloatHeader(2, 5),
     StrHeader(<<"3">>), StrHeader(<<"1", "0">>), StrHeader(<<"x">>), StrHeader(<<>>)}
        \cup {IntHeader(n) : n \in 0..MaxHeader}

\* event_id of the body and correlation_id of the message on order.created
EventIdentities == {<<1, 1>>, <<NoEvent, 1>>, <<1, NoEvent>>, <<NoEvent, NoEvent>>}

\* a message that has been through the retry queue carries the broker's
\* x-death header as well
InitialMessages ==
    {[Message(OrderId(1), id[1], h, 0, Null) EXCEPT
         !.correlation_id = id[2],
         !.other = IF h.kind = "missing" THEN {} ELSE {"x-death"}] :
       h \in HeaderValues, id \in EventIdentities}

InitRetry ==
    /\ orders = [o \in Orders |-> IF o = OrderId(1)
                                  THEN [NewRow EXCEPT !.status = "QUEUED"] ELSE NoRow]
    /\ outbox = {}
    /\ nextOutboxId = 2
    /\ rowLock = [i \in OutboxIds |-> Null]
    /\ users = {1}
    /\ \E msg \in InitialMessages :
          queues = [q \in {QUEUE_MAIN, QUEUE_RETRY, QUEUE_DLQ} |->
                      IF q = QUEUE_MAIN THEN <<msg>> ELSE <<>>]
    /\ unacked = [w \in Workers |-> NoMsg]
    /\ wpc = [w \in Workers |-> "idle"]
    /\ wloc = [w \in Workers |-> NoWLoc]
    /\ ppc = [p \in Publishers |-> "idle"]
    /\ ploc = [p \in Publishers |-> NoPLoc]
    /\ push = [p \in Procs |-> NoPush]
    /\ order_events = NoEventsTable
    /\ ipc = [o \in Orders |-> IF o = OrderId(1) THEN "done" ELSE "idle"]
    /\ hist = [o \in Orders |-> NoHist]
    /\ \E m \in 0..MaxEnvRetries :
          budget = [crashes |-> 0, faults |-> MaxHops, user_changes |-> 0,
                    orders |-> 0, foreign |-> 0, max_retries |-> m,
                    routes |-> 1]
    /\ saga = NoSaga

NextRetry ==
    \/ \E p \in Procs : Push(p)
    \/ RetryExpire
    \/ PipelineStep({"w1"})
    \/ HandlerStep({"w1"})

SpecRetry == InitRetry /\ [][NextRetry]_vars

\* Two workers on the same queue and a ROS whose answer for an order may differ
\* from call to call; the publisher may be killed (its rolled-back row is
\* published again), no call fails.
MaxRoutes == 2

InitRoute ==
    /\ orders = [o \in Orders |-> NoRow]
    /\ outbox = {}
    /\ nextOutboxId = 1
    /\ rowLock = [i \in OutboxIds |-> Null]
    /\ users = {1}
    /\ queues = [q \in {QUEUE_MAIN, QUEUE_RETRY, QUEUE_DLQ} |-> <<>>]
    /\ unacked = [w \in Workers |-> NoMsg]
    /\ wpc = [w \in Workers |-> "idle"]
    /\ wloc = [w \in Workers |-> NoWLoc]
    /\ ppc = [p \in Publishers |-> "idle"]
    /\ ploc = [p \in Publishers |-> NoPLoc]
    /\ push = [p \in Procs |-> NoPush]
    /\ order_events = NoEventsTable
    /\ ipc = [o \in Orders |-> "idle"]
    /\ hist = [o \in Orders |-> NoHist]
    /\ budget = [crashes |-> MaxCrashes, faults |-> 0, user_changes |-> 0,
                 orders |-> 1, foreign |-> 0, max_retries |-> MAX_RETRIES,
                 routes |-> MaxRoutes]
    /\ saga = NoSaga

NextRoute ==
    \/ \E o \in Orders : create_order(o)
    \/ \E p \in Procs : Push(p)
    \/ PublisherStep({"p1"})
    \/ \E p \in Publishers : PublisherCrash(p)
    \/ PipelineStep(Workers)

SpecRoute == InitRoute /\ [][NextRoute]_vars

\* The life of one published event: one worker, one order, and on
\* order.created the message the outbox publisher has published for it (no
\* headers); MAX_RETRIES is configured to any value up to MaxChain, up to
\* MaxChain + 1 calls fail and the worker may be killed.
MaxChain == 3

InitEnvelope ==
    /\ orders = [o \in Orders |-> IF o = OrderId(1)
                                  THEN [NewRow EXCEPT !.status = "QUEUED"] ELSE NoRow]
    /\ outbox = {}
    /\ nextOutboxId = 2
    /\ rowLock = [i \in OutboxIds |-> Null]
    /\ users = {1}
    /\ queues = [q \in {QUEUE_MAIN, QUEUE_RETRY, QUEUE_DLQ} |->
                   IF q = QUEUE_MAIN
                   THEN <<OutboxMessage([id |-> 1, order |-> OrderId(1)])>>
                   ELSE <<>>]
    /\ unacked = [w \in Workers |-> NoMsg]
    /\ wpc = [w \in Workers |-> "idle"]
    /\ wloc = [w \in Workers |-> NoWLoc]
    /\ ppc = [p \in Publishers |-> "idle"]
    /\ ploc = [p \in Publishers |-> NoPLoc]
    /\ push = [p \in Procs |-> NoPush]
    /\ order_events = NoEventsTable
    /\ ipc = [o \in Orders |-> IF o = OrderId(1) THEN "done" ELSE "idle"]
    /\ hist = [o \in Orders |-> [NoHist EXCEPT !.confirmed = (o = OrderId(1)),
                                               !.sent = (o = OrderId(1)),
                                               !.published = IF o = OrderId(1) THEN 1 ELSE 0]]
    /\ \E m \in 0..MaxChain :
          budget = [crashes |-> MaxCrashes, faults |-> MaxChain + 1, user_changes |-> 0,
                    orders |-> 0, foreign |-> 0, max_retries |-> m,
                    routes |-> 1]
    /\ saga = NoSaga

NextEnvelope ==
    \/ \E p \in Procs : Push(p)
    \/ RetryExpire
    \/ PipelineStep({"w1"})
    \/ HandlerStep({"w1"})
    \/ \E w \in Workers : WorkerCrash(w)

SpecEnvelope == InitEnvelope /\ [][NextEnvelope]_vars

\* ------------------------------------------------------ saga orchestrator
pipelineVars == <<orders, outbox, nextOutboxId, rowLock, users, queues, unacked,
                  wpc, wloc, ppc, ploc, push, order_events, ipc, hist, budget>>

\* CMSServiceClient / ROSServiceClient / WMSServiceClient .execute: the
\* validation that makes it raise ValueError
execute_raises(name, order) ==
    CASE name = "CMS Approval" -> ~order.customer_id
      [] name = "Route Planning" -> ~order.shipping_address
      [] name = "Inventory Allocation" -> ~order.items

\* step.action(order) raises: the client is down or refuses the order
action_raises(i, order, clients) ==
    i \in clients.down \/ execute_raises(StepNames[i + 1], order)

\* execute_saga, "Update order status based on step"
SuccessStatus(name) ==
    IF name = "CMS Approval" THEN "CMS_APPROVED"
    ELSE IF name = "Route Planning" THEN "ROUTE_PLANNED"
    ELSE IF name = "Inventory Allocation" THEN "INVENTORY_ALLOCATED"
    ELSE saga.execution.status

\* execute_saga, "Set appropriate failure status"
FailureStatus(name) ==
    IF name = "CMS Approval" THEN "CMS_REJECTED"
    ELSE IF name = "Route Planning" THEN "ROUTE_FAILED"
    ELSE IF name = "Inventory Allocation" THEN "INVENTORY_FAILED"
    ELSE saga.execution.status

\* get_current_step of an execution that stops one step short
get_current_step_short(execution) ==
    IF execution.current_step_index < Len(execution.steps) - 1
    THEN execution.current_step_index ELSE -1

\* SagaExecution.get_current_step: the index of the step, or -1 for None
get_current_step(execution) ==
    IF execution.current_step_index < Len(execution.steps)
    THEN execution.current_step_index ELSE -1

\* get_completed_steps that takes the failed step for completed as well
get_steps_to_current(execution) ==
    [k \in 1 .. Min(execution.current_step_index + 1, Len(execution.steps)) |-> k - 1]

\* SagaExecution.get_completed_steps: self.steps[:self.current_step_index]
get_completed_steps(execution) ==
    [k \in 1 .. Min(execution.current_step_index, Len(execution.steps)) |-> k - 1]

\* reversed(seq)
reversed(seq) == [k \in 1 .. Len(seq) |-> seq[Len(seq) + 1 - k]]

\* execute_saga(order), up to the return of start_saga: without an order_id
\* start_saga raises ValueError, which execute_saga does not catch
start_saga ==
    /\ saga.pc = "idle"
    /\ \E order \in SagaOrders, clients \in SagaClients :
          saga' = IF order.order_id
                  THEN [saga EXCEPT !.pc = "loop", !.order = order, !.clients = clients,
                                    !.execution = NewExecution]
                  ELSE [saga EXCEPT !.pc = "raised", !.order = order,
                                    !.clients = clients]
    /\ UNCHANGED pipelineVars

\* one pass of the while loop: step.action(order), then the success branch or
\* the first half of the except branch (step FAILED, the failure status)
StepAction ==
    /\ saga.pc = "loop"
    /\ get_current_step(saga.execution) # -1
    /\ LET i == get_current_step(saga.execution)
           raises == action_raises(i, saga.order, saga.clients)
       IN saga' =
            IF raises
            THEN [saga EXCEPT !.pc = "failed",
                              !.calls = Append(@, <<"action", i, "raised">>),
                              !.execution.steps[i + 1] = "FAILED",
                              !.execution.status = FailureStatus(StepNames[i + 1])]
            ELSE [saga EXCEPT !.calls = Append(@, <<"action", i, "returned">>),
                              !.execution.steps[i + 1] = "SUCCESS",
                              !.execution.status = SuccessStatus(StepNames[i + 1]),
                              !.execution.current_step_index = @ + 1]
    /\ UNCHANGED pipelineVars

\* the while loop has ended: "All steps succeeded"
Confirm ==
    /\ saga.pc = "loop"
    /\ get_current_step(saga.execution) = -1
    /\ saga' = [saga EXCEPT !.pc = "done", !.execution.status = "CONFIRMED"]
    /\ UNCHANGED pipelineVars

\* _compensate, up to its for loop
_compensate ==
    /\ saga.pc = "failed"
    /\ saga' = [saga EXCEPT !.pc = "compensating",
                            !.execution.status = "COMPENSATING",
                            !.todo = reversed(get_completed_steps(saga.execution))]
    /\ UNCHANGED pipelineVars

\* one pass of the for loop of _compensate: step.compensation(order); when it
\* raises the error is logged and the loop goes on
Compensation ==
    /\ saga.pc = "compensating"
    /\ saga.todo # <<>>
    /\ LET i == Head(saga.todo) IN
        saga' = IF i \in saga.clients.comp_down
                THEN [saga EXCEPT !.todo = Tail(@),
                                  !.calls = Append(@, <<"compensation", i, "raised">>)]
                ELSE [saga EXCEPT !.todo = Tail(@),
                                  !.calls = Append(@, <<"compensation", i, "returned">>),
                                  !.execution.steps[i + 1] = "COMPENSATED"]
    /\ UNCHANGED pipelineVars

\* _compensate has returned: execution.status = OrderStatus.FAILED; return
SagaFailed ==
    /\ saga.pc = "compensating"
    /\ saga.todo = <<>>
    /\ saga' = [saga EXCEPT !.pc = "done", !.execution.status = "FAILED"]
    /\ UNCHANGED pipelineVars

\* One execute_saga call of an orchestrator, for any order and any clients.
InitSaga ==
    /\ orders = [o \in Orders |-> NoRow]
    /\ outbox = {}
    /\ nextOutboxId = 1
    /\ rowLock = [i \in OutboxIds |-> Null]
    /\ users = {}
    /\ queues = [q \in {QUEUE_MAIN, QUEUE_RETRY, QUEUE_DLQ} |-> <<>>]
    /\ unacked = [w \in Workers |-> NoMsg]
    /\ wpc = [w \in Workers |-> "idle"]
    /\ wloc = [w \in Workers |-> NoWLoc]
    /\ ppc = [p \in Publishers |-> "idle"]
    /\ ploc = [p \in Publishers |-> NoPLoc]
    /\ push = [p \in Procs |-> NoPush]
    /\ order_events = NoEventsTable
    /\ ipc = [o \in Orders |-> "idle"]
    /\ hist = [o \in Orders |-> NoHist]
    /\ budget = [crashes |-> 0, faults |-> 0, user_changes |-> 0,
                 orders |-> 0, foreign |-> 0, max_retries |-> MAX_RETRIES,
                 routes |-> 1]
    /\ saga = NoSaga

NextSaga ==
    \/ start_saga
    \/ StepAction
    \/ Confirm
    \/ _compensate
    \/ Compensation
    \/ SagaFailed

SpecSaga == InitSaga /\ [][NextSaga]_vars

\* ================================================================ claims
InQueue(q, o) == \E i \in DOMAIN queues[q] : queues[q][i].order = o
HasOutboxRow(o) == \E r \in outbox : r.order = o
HeldByWorker(o) == \E w \in Workers : unacked[w].order = o \/ wloc[w].msg.order = o
HeldByPublisher(o) ==
    \E p \in Publishers : \E i \in DOMAIN ploc[p].batch : ploc[p].batch[i].order = o
PushPending(o) == \E p \in Procs : push[p].order = o

\* the event of order o is still on its way to a worker
EventPending(o) ==
    HasOutboxRow(o) \/ InQueue(QUEUE_MAIN, o) \/ InQueue(QUEUE_RETRY, o)

RECURSIVE SumAdapterFailures(_)
SumAdapterFailures(S) ==
    IF S = {} THEN 0
    ELSE LET o == CHOOSE x \in S : TRUE
         IN hist[o].adapter_failures + SumAdapterFailures(S \ {o})

\* nothing but adapter calls has failed so far: no process was killed, no
\* publish was lost or raised, no database or ack call raised
OnlyAdaptersFailed ==
    /\ budget.crashes = MaxCrashes
    /\ MaxFaults - budget.faults = SumAdapterFailures(Orders)

Stages == {"CMS", "ROS", "WMS"}
Calling(S) == CASE S = "CMS" -> "CMS_CALLING" [] S = "ROS" -> "ROS_CALLING"
                [] S = "WMS" -> "WMS_CALLING"
StageError(S) == CASE S = "CMS" -> "CMS_ERROR" [] S = "ROS" -> "ROS_ERROR"
                   [] S = "WMS" -> "WMS_ERROR"
ErrorStatuses == {StageError(S) : S \in Stages}

\* the edges of the order state machine
StatusEdges ==
    {<<"NEW", "QUEUED">>, <<"QUEUED", "PROCESSING">>,
     <<"PROCESSING", "CMS_CALLING">>, <<"CMS_CALLING", "CMS_OK">>,
     <<"CMS_OK", "ROS_CALLING">>, <<"ROS_CALLING", "ROS_OK">>,
     <<"ROS_OK", "WMS_CALLING">>, <<"WMS_CALLING", "WMS_OK">>,
     <<"WMS_OK", "READY_FOR_DRIVER">>}
    \cup {<<Calling(S), StageError(S)>> : S \in Stages}
    \cup {<<StageError(S), "PROCESSING">> : S \in Stages}
    \cup {<<StageError(S), "DLQ">> : S \in Stages}

\* C1: every change of an order's stored status is an edge of the state
\* machine NEW -> QUEUED -> PROCESSING -> .. -> READY_FOR_DRIVER, S_CALLING ->
\* S_ERROR, the retry re-entry from S_ERROR, or S_ERROR -> DLQ.
C1_StatusFollowsStateMachine ==
    [][\A o \in Orders :
         (orders[o].status # "NONE" /\ orders'[o].status # orders[o].status)
            => <<orders[o].status, orders'[o].status>> \in StatusEdges]_vars

\* C2: for an (order_id, event_id) the pipeline runs to the terminal state at
\* most once, whatever deliveries of the event there are.
C2_PipelineRunsAtMostOnce ==
    \A o \in Orders : hist[o].ready_runs <= 1

\* C3: a committed (order, outbox row) is delivered to the worker at least
\* once: until the first delivery the event is never lost, it is in the outbox
\* or in the main or retry queue.
C3_EventNeverLostBeforeDelivery ==
    \A o \in Orders :
        orders[o].status # "NONE" => (hist[o].delivered \/ EventPending(o))

\* C4: a message whose processing fails on every attempt is dispatched at most
\* MAX_RETRIES + 1 times and ends in the DLQ queue with its order in status
\* DLQ, nowhere else.
C4_FailingMessageEndsInDlq ==
    \A o \in Orders :
        (/\ OnlyAdaptersFailed
         /\ hist[o].delivered /\ hist[o].ready_runs = 0)
        => /\ hist[o].dispatches <= MAX_RETRIES + 1
           /\ (~EventPending(o) /\ ~HeldByWorker(o) /\ ~HeldByPublisher(o)
               /\ ~PushPending(o))
              => (InQueue(QUEUE_DLQ, o) /\ orders[o].status = "DLQ")

\* C5: once an order's status is READY_FOR_DRIVER or DLQ no step of the
\* pipeline changes it.
C5_TerminalStatusIsFinal ==
    [][\A o \in Orders :
         orders[o].status \in {"READY_FOR_DRIVER", "DLQ"}
            => orders'[o].status = orders[o].status]_vars

\* C6: whenever an order's status is set to READY_FOR_DRIVER, each of the CMS,
\* ROS and WMS adapters has returned a success result for it before.
C6_ReadyOnlyAfterThreeSuccesses ==
    [][\A o \in Orders :
         (orders'[o].status = "READY_FOR_DRIVER" /\ orders[o].status # "READY_FOR_DRIVER")
            => (hist[o].cms_ok /\ hist[o].ros_ok /\ hist[o].wms_ok)]_vars

\* C7: an attempt writes WMS_OK only when the line the WMS adapter read starts
\* with OK| or ACK|.
C7_WmsOkOnlyOnSuccessReply ==
    [][\A w \in Workers :
         (wpc[w] = "wms" /\ wpc'[w] = "set_ready")
            => WmsSuccessReply(wloc'[w].reply)]_vars

\* C8: an outbox row is deleted only after the broker has the event, and once
\* no publisher transaction is open (and no publisher was killed) no event
\* the broker has still has its row.
C8_OutboxRowIffUnconfirmed ==
    \A o \in Orders :
        /\ (orders[o].status # "NONE" /\ ~HasOutboxRow(o)) => hist[o].confirmed
        /\ (/\ \A p \in Publishers : ppc[p] = "idle"
            /\ budget.crashes = MaxCrashes
            /\ hist[o].confirmed) => ~HasOutboxRow(o)

C10_AssignedDriverWriteOnce ==
    [][\A o \in Orders :
         orders[o].assigned_driver_id # NoDriver
            => orders'[o].assigned_driver_id = orders[o].assigned_driver_id]_vars

\* a second terminator run picked another driver for an order that already
\* has one, and its UPDATE has run
C10_Witness ==
    \E w \in Workers :
        /\ wpc[w] = "mark"
        /\ wloc[w].driver_id # NoDriver
        /\ orders[OrderOf(w)].assigned_driver_id # NoDriver
        /\ orders[OrderOf(w)].assigned_driver_id # wloc[w].driver_id

\* C11: a delivery whose body is no JSON or lacks order_id goes straight to
\* the DLQ queue with x-dlq-reason = "malformed": it is never put on the retry
\* queue, and it writes no order row and no event-log entry.
C11_MalformedStraightToDlq ==
    /\ \A i \in DOMAIN queues[QUEUE_RETRY] : queues[QUEUE_RETRY][i].body = "json"
    /\ \A i \in DOMAIN queues[QUEUE_DLQ] :
          queues[QUEUE_DLQ][i].body # "json" => queues[QUEUE_DLQ][i].reason = "malformed"

\* no publish was lost or raised and no database or ack call raised: the only
\* calls that failed are adapter calls
OnlyAdapterFaults == MaxFaults - budget.faults = SumAdapterFailures(Orders)

\* nothing of order o is on its way any more: no outbox row, no message in the
\* main or retry queue, nothing in the hands of a publisher or a worker
Settled(o) ==
    /\ ~EventPending(o) /\ ~HeldByWorker(o) /\ ~HeldByPublisher(o)
    /\ ~PushPending(o)

\* C12: every order committed by intake reaches READY_FOR_DRIVER or DLQ: when
\* nothing of a delivered order is on its way any more (so that no further
\* step will touch it), its status is one of the two, also after a worker
\* crash and with backends that fail.
C12_SettledOrderIsTerminal ==
    \A o \in Orders :
        (orders[o].status # "NONE" /\ hist[o].delivered /\ OnlyAdapterFaults /\ Settled(o))
            => orders[o].status \in {"READY_FOR_DRIVER", "DLQ"}

\* C13: a failed delivery is acknowledged and exactly one new envelope is
\* published for it: never more envelopes than acknowledged failures, and
\* once no worker stands between the ack and the publish, as many.
C13_OneEnvelopePerFailedDelivery ==
    \A o \in Orders :
        /\ hist[o].republished <= hist[o].failed_acks
        /\ (\A w \in Workers : ~(wpc[w] = "err_pub" /\ OrderOf(w) = o))
              => hist[o].republished = hist[o].failed_acks

\* the outbox row a publisher is working on, and the rows it still has to do
BatchIds(p) == {ploc[p].batch[i].id : i \in DOMAIN ploc[p].batch}

\* C15: within one publisher the published rows come in ascending outbox id:
\* when a publisher's basic_publish for a row returns, no row with a smaller id
\* is waiting for its publish to be repeated after it failed in this publisher.
C15_PublisherAscending ==
    [][\A p \in Publishers :
          (ppc[p] = "publish" /\ ppc'[p] = "delete")
              => \A r \in outbox :
                    p \in hist[r.order].publish_failed => r.id >= Head(ploc[p].batch).id]_vars

\* C16: a row whose publish failed stays in the outbox, and the broker gets the
\* event of a row exactly once, whichever publisher repeats the publish and
\* whichever rows shared the batch of the failure.
C16_PublishedExactlyOnce ==
    \A o \in Orders :
        /\ hist[o].publish_failed # {} => HasOutboxRow(o)
        /\ hist[o].published <= 1

\* C17: no outbox row is in the batch of two publishers at the same time.
C17_NoRowHeldTwice ==
    \A p, q \in Publishers : p # q => BatchIds(p) \cap BatchIds(q) = {}

\* C18: an order row exists only together with its ORDER_CREATED outbox row,
\* or after a publisher has published that row: intake never leaves an order
\* whose event is neither in the outbox nor handed to the broker, whatever
\* happens to the gateway after its commit.
C18_OrderRowHasItsEvent ==
    \A o \in Orders :
        orders[o].status # "NONE"
            => /\ HasOutboxRow(o) \/ hist[o].sent
               /\ ipc[o] # "publish_order_created"

\* the gateway was killed after the commit of an order whose row has since been
\* published and deleted, while the other order's row is still in the outbox
C18_Witness ==
    /\ budget.crashes < MaxCrashes
    /\ \E o \in Orders :
          orders[o].status # "NONE" /\ ~HasOutboxRow(o) /\ hist[o].sent
    /\ \E o \in Orders :
          orders[o].status = "NEW" /\ HasOutboxRow(o) /\ ~hist[o].sent

\* worker w takes a step of its handler
WorkerMoves(w) == wpc'[w] # wpc[w]

\* C19: while a worker handles a delivery the idempotency gate has found to be
\* a duplicate, its steps leave the order row as it is (status, retry_count,
\* last_error, last_event_id, assigned_driver_id), call no adapter and put
\* nothing on the retry or the DLQ queue.
C19_DuplicateOnlyAudited ==
    [][\A w \in Workers :
          (wloc[w].skipped = "DUPLICATE_SKIP" /\ WorkerMoves(w))
              => /\ orders'[OrderOf(w)] = orders[OrderOf(w)]
                 /\ hist'[OrderOf(w)].adapter_failures = hist[OrderOf(w)].adapter_failures
                 /\ wpc'[w] \notin {"cms", "ros", "wms"}
                 /\ queues'[QUEUE_RETRY] = queues[QUEUE_RETRY]
                 /\ queues'[QUEUE_DLQ] = queues[QUEUE_DLQ]]_vars

\* C20: while a worker handles a delivery the skip gate has skipped because
\* the order is done, its steps call no adapter and leave the order's status,
\* retry_count and assigned_driver_id as they are.
C20_DoneOrderOnlyAudited ==
    [][\A w \in Workers :
          (wloc[w].skipped = "SKIP_ALREADY_DONE" /\ WorkerMoves(w))
              => /\ orders'[OrderOf(w)].status = orders[OrderOf(w)].status
                 /\ orders'[OrderOf(w)].retry_count = orders[OrderOf(w)].retry_count
                 /\ orders'[OrderOf(w)].assigned_driver_id
                        = orders[OrderOf(w)].assigned_driver_id
                 /\ hist'[OrderOf(w)].adapter_failures = hist[OrderOf(w)].adapter_failures
                 /\ wpc'[w] \notin {"cms", "ros", "wms"}]_vars

\* the messages of order o on queue q
QueueMessages(q, o) == {i \in DOMAIN queues[q] : queues[q][i].order = o}

\* every failure of the run was a WMS call for order o that timed out, the WMS
\* has never sent a line for it, and no process was killed
WmsNeverAnswers(o) ==
    /\ budget.crashes = MaxCrashes
    /\ MaxFaults - budget.faults = hist[o].wms_timeouts
    /\ hist[o].wms_timeouts > 0
    /\ ~hist[o].wms_answered

\* C21: with a WMS that never answers, the order ends in DLQ after
\* MAX_RETRIES + 1 attempts that each ended in WMS_ERROR: retry_count is
\* MAX_RETRIES + 1 and the one DLQ message carries the last error text.
C21_WmsDownEndsInDlq ==
    \A o \in Orders :
        (WmsNeverAnswers(o) /\ Settled(o))
            => /\ orders[o].status = "DLQ"
               /\ orders[o].retry_count = MAX_RETRIES + 1
               /\ Cardinality(QueueMessages(QUEUE_DLQ, o)) = 1
               /\ \A i \in QueueMessages(QUEUE_DLQ, o) :
                     queues[QUEUE_DLQ][i].reason = ERR_WMS_TIMEOUT

\* the statuses the publisher and the worker write, as audit event types
StatusEvents ==
    {"QUEUED", "PROCESSING", "CMS_CALLING", "CMS_OK", "CMS_ERROR", "ROS_CALLING",
     "ROS_OK", "ROS_ERROR", "WMS_CALLING", "WMS_OK", "WMS_ERROR", "FAILED",
     "READY_FOR_DRIVER", "DLQ"}

IsStatusOrRetry(e) == e \in StatusEvents \cup {"RETRY_SCHEDULED"}

\* the positions of event type e in the log of order o
Positions(o, e) == {i \in DOMAIN order_events[o] : order_events[o][i] = e}

\* the log of order o from position i on
LogFrom(o, i) == SubSeq(order_events[o], i, Len(order_events[o]))

\* the only failing call of the run was the route optimiser, once, for order o
RosFailedOnce(o) ==
    /\ budget.faults = 0
    /\ Cardinality(Positions(o, "ROS_ERROR")) = 1

RosRetryTrail ==
    <<"CMS_OK", "ROS_CALLING", "ROS_ERROR", "RETRY_SCHEDULED", "PROCESSING",
      "CMS_CALLING", "CMS_OK", "ROS_CALLING", "ROS_OK", "WMS_CALLING", "WMS_OK",
      "READY_FOR_DRIVER">>

\* C22: when CMS answers and ROS fails on the first attempt and answers on the
\* second, the statuses from the first CMS_OK on are CMS_OK, ROS_CALLING,
\* ROS_ERROR, then PROCESSING, CMS_CALLING, CMS_OK, ROS_CALLING, ROS_OK, ..,
\* READY_FOR_DRIVER, with exactly one RETRY_SCHEDULED between ROS_ERROR and the
\* second ROS_CALLING; the order ends READY_FOR_DRIVER with retry_count 1.
C22_TransientRosFailure ==
    \A o \in Orders :
        (RosFailedOnce(o) /\ Settled(o))
            => /\ SelectSeq(LogFrom(o, CHOOSE i \in Positions(o, "CMS_OK") :
                                          \A j \in Positions(o, "CMS_OK") : i <= j),
                            IsStatusOrRetry) = RosRetryTrail
               /\ orders[o].retry_count = 1
               /\ orders[o].status = "READY_FOR_DRIVER"

\* every backend answered the first call for order o, no delivery of o failed,
\* and a driver exists
AllSucceedFirstTime(o) ==
    /\ hist[o].wms_ok
    /\ hist[o].adapter_failures = 0
    /\ hist[o].failed_acks = 0
    /\ users # {}

HappyTrail ==
    <<"CREATED", "OUTBOX_ENQUEUED", "QUEUED", "PROCESSING", "CMS_CALLING", "CMS_OK",
      "ROS_CALLING", "ROUTE_SAVED", "ROS_OK", "WMS_CALLING", "WMS_OK",
      "READY_FOR_DRIVER", "DRIVER_ASSIGNED">>

\* C23: for an order whose backends all succeed on the first attempt, once
\* intake, publisher and worker are through with it, its event log is CREATED,
\* OUTBOX_ENQUEUED, QUEUED, PROCESSING, CMS_CALLING, CMS_OK, ROS_CALLING,
\* ROUTE_SAVED, ROS_OK, WMS_CALLING, WMS_OK, READY_FOR_DRIVER, DRIVER_ASSIGNED in
\* this order, its status is READY_FOR_DRIVER and its retry_count is 0.
C23_HappyPathEventOrder ==
    \A o \in Orders :
        (AllSucceedFirstTime(o) /\ Settled(o) /\ ipc[o] = "done")
            => /\ order_events[o] = HappyTrail
               /\ orders[o].status = "READY_FOR_DRIVER"
               /\ orders[o].retry_count = 0

\* the positions of a worker inside mark_ready_for_driver
TerminatorPositions ==
    {"set_ready", "assign_read", "assign_pick", "assign_update", "audit_ready"}

\* the event types logged for order o
Logged(log, o) == {log[o][i] : i \in DOMAIN log[o]}

\* C24: when the terminator runs and no user has the role driver, every step
\* of it leaves assigned_driver_id null, attempts no driver notification and
\* audits no DRIVER_ASSIGNED; its set_status makes the status READY_FOR_DRIVER,
\* its audit step appends READY_FOR_DRIVER and DRIVER_ASSIGN_FAILED, and it hands
\* over to mark_processed and the ack (never to the error handler), which mark
\* the event and take the delivery off the broker without publishing a retry.
C24_NoDriverTerminator ==
    [][\A w \in Workers :
        (users = {} /\ WorkerMoves(w) /\ OrderOf(w) # Null)
            => LET o == OrderOf(w) IN
               /\ wpc[w] \in TerminatorPositions
                    => /\ wpc'[w] \in TerminatorPositions \cup {"mark"}
                       /\ orders'[o].assigned_driver_id = NoDriver
                       /\ hist'[o].notified = 0
                       /\ "DRIVER_ASSIGNED" \notin Logged(order_events', o)
               /\ wpc[w] = "set_ready" => orders'[o].status = "READY_FOR_DRIVER"
               /\ wpc[w] = "audit_ready"
                    => /\ order_events'[o] =
                            order_events[o] \o <<"READY_FOR_DRIVER", "DRIVER_ASSIGN_FAILED">>
                       /\ wpc'[w] = "mark"
               /\ (wpc[w] = "mark" /\ wpc'[w] = "ack")
                    => orders'[o].last_event_id = EventOf(w)
               /\ (wpc[w] = "ack" /\ wpc'[w] = "idle")
                    => unacked'[w] = NoMsg /\ queues' = queues
      ]_vars

\* the terminator has run without a driver and the delivery is marked and
\* acknowledged
C24_Witness ==
    /\ users = {}
    /\ wpc["w1"] = "idle" /\ unacked["w1"] = NoMsg
    /\ orders[OrderId(1)].last_event_id = 1
    /\ orders[OrderId(1)].status = "READY_FOR_DRIVER"
    /\ "DRIVER_ASSIGN_FAILED" \in Logged(order_events, OrderId(1))
    /\ queues[QUEUE_RETRY] = <<>>

\* nothing will write the status of order o again unless a process is killed:
\* no message of o is queued or in a worker's hands, no publisher has o in its
\* batch, no push of o is on its way, and an outbox row of o that is left is
\* deleted in a publisher's open transaction
Done(o) ==
    /\ ~InQueue(QUEUE_MAIN, o) /\ ~InQueue(QUEUE_RETRY, o)
    /\ ~HeldByWorker(o) /\ ~HeldByPublisher(o) /\ ~PushPending(o)
    /\ \A r \in outbox : r.order = o => \E p \in Publishers : r.id \in ploc[p].deleted

\* no call has failed and no process has been killed so far
NothingFailed == budget.faults = MaxFaults /\ budget.crashes = MaxCrashes

\* C26: the outcome of a status push is not propagated: in a run in which
\* nothing else fails, the step in which the POST to the facade succeeds or
\* fails moves no process, publishes nothing, leaves retry_count alone, and,
\* when it is the last step that concerns the order, leaves the stored status
\* as it is, so that the run in which the push fails and the run in which it
\* succeeds end with the same status.
C26_PushOutcomeNotPropagated ==
    [][\A p \in Procs, o \in Orders :
        (NothingFailed /\ push[p].order = o /\ push'[p] = NoPush
            /\ wpc' = wpc /\ ppc' = ppc)
            => /\ queues' = queues
               /\ orders'[o].retry_count = orders[o].retry_count
               /\ Done(o)' => orders'[o].status = orders[o].status
      ]_vars

\* C27: the facade's internal status endpoint never makes a read return an
\* older status than the last one the pipeline wrote: whenever the POST of a
\* set_status is over (handled by the facade, or failed), get_status returns
\* what it returned before, which is the status of the latest set_status.
C27_FacadeWriteNeverStale ==
    [][\A p \in Procs, o \in Orders :
        (push[p].order = o /\ push'[p] = NoPush /\ wpc' = wpc /\ ppc' = ppc)
            => get_status(orders', o) = get_status(orders, o)
      ]_vars

\* C28: when the adapter call of stage S fails, the error status the handler
\* writes for that attempt is S_ERROR: never the error status of another stage
\* and never FAILED, whatever the error text.
C28_ErrorStatusMatchesStage ==
    [][\A w \in Workers :
        (wpc[w] = "err" /\ wpc'[w] = "err_ack" /\ wloc[w].stage # Null)
            => orders'[OrderOf(w)].status = StageError(wloc[w].stage)
      ]_vars

\* the statuses the error handler writes for a failed attempt
FailureStatuses == ErrorStatuses \cup {"FAILED"}

\* C29: the redelivered retry envelope of a failed attempt runs the pipeline
\* again from PROCESSING: with the order in the error status of that attempt
\* (CMS_ERROR, ROS_ERROR, WMS_ERROR or FAILED), neither the idempotency gate
\* nor the skip gate sends the delivery to the acknowledgement without
\* processing.
C29_RetryRunsPipeline ==
    [][\A w \in Workers :
        (/\ wpc[w] \in {"gate", "get_status"}
         /\ wpc'[w] \notin {wpc[w], "idle"}
         /\ get_retry_count(wloc[w].msg) > 0
         /\ get_status(orders, OrderOf(w)) \in FailureStatuses)
            => wpc'[w] \in {"get_status", "set_processing"}
      ]_vars

\* the expirations of retries 1..5 with the default BASE_RETRY_TTL_MS
DefaultTtls == <<2000, 4000, 8000, 16000, 32000>>
ClaimedTtl(next_retry) ==
    IF next_retry <= Len(DefaultTtls) THEN DefaultTtls[next_retry] ELSE MAX_RETRY_TTL_MS

\* x-retries read as an integer header, anything else as 0
IntegerOrZero(h) == IF h.kind = "int" THEN h.num ELSE 0

\* x-retries read as int() reads it: an integer as itself, a float truncated,
\* a string of digits as its number; a missing header and anything else as 0
ConvertibleOrZero(h) ==
    CASE h.kind = "int" -> h.num
      [] h.kind = "float" -> h.num
      [] h.kind = "str" /\ h.text \in {<<"3">>} -> 3
      [] h.kind = "str" /\ h.text \in {<<"1", "0">>} -> 10
      [] OTHER -> 0

\* the step of the error handler that publishes: for a failed delivery whose
\* header reads r = Reading(x-retries), a retry envelope is published only if
\* r + 1 <= MAX_RETRIES and a DLQ message only if not; the envelope carries
\* x-retries = r + 1 and x-ttl-ms = expiration = min(MAX_RETRY_TTL_MS,
\* BASE_RETRY_TTL_MS * 2^r), which is 2000, 4000, 8000, 16000, 32000 for
\* retries 1..5 and 60000 from retry 6 on
EnvelopeFollows(Reading(_)) ==
    \A w \in Workers :
        (wpc[w] = "err_pub" /\ wpc'[w] # wpc[w])
            => LET r == Reading(wloc[w].msg.retries)
                   sent == queues'[QUEUE_RETRY]
                   env == sent[Len(sent)]
               IN /\ Len(queues'[QUEUE_DLQ]) > Len(queues[QUEUE_DLQ])
                        => r + 1 > budget.max_retries
                  /\ Len(sent) > Len(queues[QUEUE_RETRY])
                        => /\ r + 1 <= budget.max_retries
                           /\ env.retries = IntHeader(r + 1)
                           /\ env.ttl = Min(MAX_RETRY_TTL_MS, BASE_RETRY_TTL_MS * Pow2(r))
                           /\ env.ttl = ClaimedTtl(r + 1)
                           /\ env.expiration # <<>>
                           /\ \A i \in DOMAIN env.expiration : IsDigit(env.expiration[i])
                           /\ DigitsValue(env.expiration) = env.ttl

\* C30 as stated: a failed delivery carrying x-retries = r with r + 1 <=
\* MAX_RETRIES gets a retry envelope with x-retries = r + 1 and expiration and
\* x-ttl-ms min(MAX_RETRY_TTL_MS, BASE_RETRY_TTL_MS * 2^r), where a missing or
\* non-integer header counts as r = 0.
C30_NonIntegerHeaderIsZero == [][EnvelopeFollows(IntegerOrZero)]_vars

\* C30: a failed delivery carrying x-retries = r with r + 1 <= MAX_RETRIES gets
\* a retry envelope with x-retries = r + 1 and expiration and x-ttl-ms
\* min(MAX_RETRY_TTL_MS, BASE_RETRY_TTL_MS * 2^r), where r is 0 for a missing
\* header and for a value int() cannot convert, the integer part for a float
\* and the number for a string of digits.
C30_RetryEnvelope == [][EnvelopeFollows(ConvertibleOrZero)]_vars

\* a sixth retry is scheduled, with the capped expiration
C30_Witness ==
    \E i \in DOMAIN queues[QUEUE_RETRY] :
        /\ queues[QUEUE_RETRY][i].retries = IntHeader(MaxHeader)
        /\ queues[QUEUE_RETRY][i].ttl = MAX_RETRY_TTL_MS
        /\ queues[QUEUE_RETRY][i].expiration = str(MAX_RETRY_TTL_MS)

\* C31: the publisher's QUEUED write is a transition NEW -> QUEUED only: the
\* set_status(order_id, "QUEUED") that follows the publish and the delete of an
\* outbox row finds the order in NEW (or in QUEUED, when the row is published
\* a second time), never in a status the worker has written.
C31_QueuedOnlyFromNew ==
    [][\A p \in Publishers, o \in Orders :
          (/\ ppc[p] = "queued" /\ ppc'[p] # "queued"
           /\ Head(ploc[p].batch).order = o
           /\ orders'[o].status = "QUEUED")
              => orders[o].status \in {"NEW", "QUEUED"}]_vars

\* C32: assign_driver_if_missing returns the now-effective driver: whenever it
\* returns a driver id, that id is the order's stored assigned_driver_id when
\* the call returns, so DRIVER_ASSIGNED and NEW_ASSIGNMENT name the stored
\* driver.
C32_ReturnsEffectiveDriver ==
    [][\A w \in Workers :
          (/\ wpc[w] \in {"assign_read", "assign_pick", "assign_update"}
           /\ wpc'[w] = "audit_ready"
           /\ wloc'[w].driver_id # NoDriver)
              => orders'[OrderOf(w)].assigned_driver_id = wloc'[w].driver_id]_vars

RouteStatuses == {"ROS_OK", "WMS_CALLING", "WMS_OK", "READY_FOR_DRIVER"}

\* C33: the route is persisted before ROS_OK is written: whenever an order's
\* status is ROS_OK, WMS_CALLING, WMS_OK or READY_FOR_DRIVER, payload.route is
\* set and is the response of the most recent successful ROS call for it.
C33_RouteIsLatestRosResponse ==
    \A o \in Orders :
        orders[o].status \in RouteStatuses
            => /\ orders[o].route # Null
               /\ orders[o].route = hist[o].last_route

\* the envelope a worker's republish has just put at the tail of queue q
Republished(q) == Len(queues'[q]) = Len(queues[q]) + 1
NewEnvelope(q) == queues'[q][Len(queues'[q])]

\* C34: a retry preserves the event identity: every envelope the worker puts on
\* the retry queue or the DLQ queue has the body, the correlation_id and the
\* other headers of the failed delivery, so that safe_extract_event_id reads
\* the same event id from it; a retry envelope differs from the delivery in
\* x-retries and x-ttl-ms only, a DLQ envelope in x-dlq-reason only.
C34_RetryPreservesEventIdentity ==
    [][\A w \in Workers : \A q \in {QUEUE_RETRY, QUEUE_DLQ} :
          (wpc[w] = "err_pub" /\ wpc'[w] # "err_pub" /\ Republished(q))
              => /\ NewEnvelope(q).body = wloc[w].msg.body
                 /\ NewEnvelope(q).order = wloc[w].msg.order
                 /\ NewEnvelope(q).event = wloc[w].msg.event
                 /\ NewEnvelope(q).correlation_id = wloc[w].msg.correlation_id
                 /\ NewEnvelope(q).other = wloc[w].msg.other
                 /\ safe_extract_event_id(NewEnvelope(q)) = EventOf(w)
                 /\ q = QUEUE_RETRY => NewEnvelope(q).reason = wloc[w].msg.reason
                 /\ q = QUEUE_DLQ => /\ NewEnvelope(q).retries = wloc[w].msg.retries
                                     /\ NewEnvelope(q).ttl = wloc[w].msg.ttl]_vars

\* a message that carries its event id in the correlation_id only has failed
\* twice: it went through the retry queue and is now on the DLQ queue
C34_Witness ==
    /\ hist[OrderId(1)].republished = 2
    /\ \E i \in DOMAIN queues[QUEUE_DLQ] :
          /\ queues[QUEUE_DLQ][i].event = NoEvent
          /\ queues[QUEUE_DLQ][i].correlation_id = 1
          /\ queues[QUEUE_DLQ][i].other = {"x-death"}
          /\ queues[QUEUE_DLQ][i].retries.kind = "int"

\* what the envelopes on the retry queue and the DLQ queue carry
RetryQueueCounters ==
    \A i \in DOMAIN queues[QUEUE_RETRY] :
        /\ queues[QUEUE_RETRY][i].retries.kind = "int"
        /\ queues[QUEUE_RETRY][i].retries.num >= 1
        /\ queues[QUEUE_RETRY][i].retries.num <= budget.max_retries
DlqQueueCounters ==
    \A i \in DOMAIN queues[QUEUE_DLQ] :
        /\ get_retry_count(queues[QUEUE_DLQ][i]) = budget.max_retries
        /\ queues[QUEUE_DLQ][i].reason # Null
        /\ queues[QUEUE_DLQ][i].reason_len <= DLQ_REASON_MAX

\* C35: the envelope counters of an event the publisher has published without
\* an x-retries header: after every step each message on the retry queue has
\* 1 <= x-retries <= MAX_RETRIES and each message on the DLQ queue reads as
\* x-retries = MAX_RETRIES (no header reads as 0) and has an x-dlq-reason of
\* at most 200 characters; and the envelope a failed delivery is republished
\* in for a retry carries the delivery's x-retries plus 1.
C35_EnvelopeCounters ==
    [][/\ RetryQueueCounters'
       /\ DlqQueueCounters'
       /\ \A w \in Workers :
             (wpc[w] = "err_pub" /\ wpc'[w] # "err_pub" /\ Republished(QUEUE_RETRY))
                 => NewEnvelope(QUEUE_RETRY).retries
                        = IntHeader(get_retry_count(wloc[w].msg) + 1)]_vars

\* an event has failed at every hop of a chain of MaxChain retries, the last
\* time with an error text longer than 200 characters, and is on the DLQ queue
C35_Witness ==
    /\ budget.max_retries = MaxChain
    /\ \E i \in DOMAIN queues[QUEUE_DLQ] :
          /\ queues[QUEUE_DLQ][i].retries = IntHeader(MaxChain)
          /\ queues[QUEUE_DLQ][i].reason = ERR_ROS_CONN
          /\ queues[QUEUE_DLQ][i].reason_len = DLQ_REASON_MAX

\* C36: DLQ consistency: whenever an order's stored status is DLQ a message of
\* that order is on the DLQ queue; and once the worker has put a DLQ message of
\* an existing order on the queue and nothing of the order is on its way any
\* more, the order's status is DLQ.
C36_DlqConsistency ==
    \A o \in Orders :
        /\ orders[o].status = "DLQ" => InQueue(QUEUE_DLQ, o)
        /\ (/\ orders[o].status # "NONE" /\ InQueue(QUEUE_DLQ, o)
            /\ ~EventPending(o) /\ ~HeldByWorker(o) /\ ~HeldByPublisher(o)
            /\ ~PushPending(o))
              => orders[o].status = "DLQ"

\* C37: the processed marker is sound: last_event_id of an order changes only
\* in the mark_processed of the success path of on_msg, to the event id of the
\* delivery in hand, and only after the order's stored status has been
\* READY_FOR_DRIVER, DLQ, DELIVERED or FAILED; and when a failed delivery is
\* sent to the retry queue its event is not the order's marker, so that the
\* idempotency gate does not take the retry for a duplicate.
C37_MarkerOnlyAfterDone ==
    [][/\ \A o \in Orders :
             orders'[o].last_event_id # orders[o].last_event_id
                 => /\ hist[o].was_done
                    /\ \E w \in Workers :
                          /\ wpc[w] = "mark" /\ wpc'[w] = "ack" /\ OrderOf(w) = o
                          /\ orders'[o].last_event_id = EventOf(w)
       /\ \A w \in Workers :
             (wpc[w] = "err_pub" /\ wpc'[w] # "err_pub" /\ Republished(QUEUE_RETRY))
                 => ~already_processed(orders, OrderOf(w), EventOf(w))]_vars

\* a delivery failed and went to the retry queue; its retry was skipped by the
\* skip gate because the order was FAILED, and has marked the event
C37_Witness ==
    \E o \in Orders :
        /\ orders[o].last_event_id # NoEvent
        /\ orders[o].status = "FAILED"
        /\ hist[o].republished > 0
        /\ hist[o].ready_runs = 0

\* execute_saga has returned after the action of step i raised
FailedAt(i) ==
    /\ saga.pc = "done"
    /\ Len(saga.calls) > i
    /\ saga.calls[i + 1] = <<"action", i, "raised">>

\* the compensation calls of a run, in the order they were made
RECURSIVE CompensationCalls(_)
CompensationCalls(calls) ==
    IF calls = <<>> THEN <<>>
    ELSE IF Head(calls)[1] = "compensation"
         THEN <<Head(calls)[2]>> \o CompensationCalls(Tail(calls))
         ELSE CompensationCalls(Tail(calls))

\* C38: saga compensation: when execute_saga fails at step i, the compensations
\* of exactly the steps 0..i-1 have been called, each once, in the order
\* i-1, .., 0, also when some of them raised; step i and the steps after it
\* were not compensated; the saga's status is FAILED and step i is FAILED.
C38_SagaCompensation ==
    \A i \in StepIndexes :
        FailedAt(i)
            => /\ CompensationCalls(saga.calls) = [k \in 1 .. i |-> i - k]
               /\ saga.execution.status = "FAILED"
               /\ saga.execution.steps[i + 1] = "FAILED"
               /\ \A j \in StepIndexes :
                     /\ j > i => saga.execution.steps[j + 1] = "PENDING"
                     /\ j < i => saga.execution.steps[j + 1] =
                                    IF j \in saga.clients.comp_down THEN "SUCCESS"
                                    ELSE "COMPENSATED"

\* the saga failed at its last step, the compensation of the second step
\* raised and the first step was compensated all the same
C38_Witness ==
    /\ FailedAt(2)
    /\ saga.calls[4] = <<"compensation", 1, "raised">>
    /\ saga.calls[5] = <<"compensation", 0, "returned">>
    /\ saga.execution.steps = <<"COMPENSATED", "SUCCESS", "FAILED">>

\* execute_saga has ended: it has returned its execution, or raised
SagaEnded == saga.pc \in {"done", "raised"}

\* the three step actions were called once each, in the order of StepNames,
\* and all returned
AllActionsReturned == saga.calls = [k \in 1 .. Len(StepNames) |-> <<"action", k - 1, "returned">>]

\* no action is called after an action has raised
NoActionAfterFailure ==
    \A k, l \in DOMAIN saga.calls :
        (k < l /\ saga.calls[k][1] = "action" /\ saga.calls[k][3] = "raised")
            => saga.calls[l][1] # "action"

\* C39 as claimed: every execute_saga call ends with the status CONFIRMED or
\* FAILED; it is CONFIRMED exactly when the three step actions were called
\* once each, in order, and all succeeded; no step runs after a failed one.
C39_SagaOutcome ==
    /\ SagaEnded
          => /\ saga.execution.status \in {"CONFIRMED", "FAILED"}
             /\ saga.execution.status = "CONFIRMED" <=> AllActionsReturned
    /\ NoActionAfterFailure

\* C39 as amended: the same for every execute_saga call that returns, which
\* is every call for an order with an order_id; for an order without one
\* start_saga raises ValueError out of execute_saga before any step is
\* called and no execution exists.
C39_SagaOutcomeOfStartedSaga ==
    /\ saga.pc = "done"
          => /\ saga.order.order_id
             /\ saga.execution.status \in {"CONFIRMED", "FAILED"}
             /\ saga.execution.status = "CONFIRMED" <=> AllActionsReturned
    /\ saga.pc = "raised"
          => /\ ~saga.order.order_id
             /\ saga.execution = NoExecution
             /\ saga.calls = <<>>
    /\ saga.order.order_id => saga.pc # "raised"
    /\ saga.execution.status \in {"PENDING", "COMPENSATING", "CMS_APPROVED",
                                  "ROUTE_PLANNED", "INVENTORY_ALLOCATED", "CMS_REJECTED",
                                  "ROUTE_FAILED", "INVENTORY_FAILED"}
          => saga.pc \notin {"done", "raised"}
    /\ NoActionAfterFailure

\* a saga whose three actions returned has ended CONFIRMED
C39_Witness ==
    /\ saga.pc = "done"
    /\ saga.execution.status = "CONFIRMED"
    /\ AllActionsReturned
    /\ saga.execution.steps = <<"SUCCESS", "SUCCESS", "SUCCESS">>

====
